---- MODULE Spec2Model ----
(***************************************************************************)
(* Model of the Notion / Time Doctor synchronisation engine.               *)
(*                                                                         *)
(* The module holds several specifications over one set of variables:      *)
(*   SpecHist  the cards collection and its status history under           *)
(*             sequential sync steps, webhook events and source edits      *)
(*   SpecPass  one run of a sync pass (syncProjects): fetch, batched       *)
(*             processing, failure accounting, sync-log finalisation       *)
(*   SpecConc  two overlapping writers for one card, one store call per    *)
(*             step                                                        *)
(*   SpecTD    syncTimeDoctorWorklogs: the chunked range fetch             *)
(* Each specification leaves the variables of the others unchanged.        *)
(***************************************************************************)
EXTENDS Integers, Sequences, FiniteSets, TLC

(***************************************************************************)
(* Bounds of the model                                                     *)
(***************************************************************************)
\* last instant of the clock
MaxTime == 2
\* cap on the length of the status history collection
MaxHist == 3

\* pages of the Projects database in SpecPass
MaxPages == 3
\* sync passes run in one behaviour of SpecPass
MaxPasses == 1
\* pages per batch in syncProjects (the source sets 50; scaled down so that a
\* pass of MaxPages pages has more than one batch)
BATCH_SIZE == 2

\* handler runs started in one behaviour of SpecConc
MaxRuns == 3

\* longest interval of a worklog sync in SpecTD, in days
MaxDays == 30
\* instants of the clock per day in SpecTD
TicksPerDay == 2

\* items matching the query of fetchAllPages in SpecFetch
MaxItems == 7
\* largest limit argument of fetchAllPages in SpecFetch
MaxLimit == 5
\* largest page_size of a databases.query request (the source uses Notion's
\* 100; scaled down so that a fetch of MaxItems items takes several requests)
NOTION_PAGE_SIZE == 2

\* worklog upserts in one behaviour of SpecWL
MaxWrites == 3

\* absent value (null / undefined)
NULL == "null"
\* absent timestamp
NOTIME == -1
\* status options of the Status select property
Statuses == {"A", "B"}
\* status written by the archival branch of the webhook ('♻️ Archive')
ARCHIVE == "Archive"

\* SpecHist and SpecConc follow one page of the Projects database and its card
PageIds == {1}

VARIABLES
  now,        \* wall clock (new Date())
  source,     \* Projects database in Notion: page id -> page snapshot
  cards,      \* collection 'cards', in insertion order; _id = position
  history,    \* collection 'card_status_history', in insertion order
  expected,   \* history: per page, the statuses applied by completed sync steps, repeats collapsed
  touched,    \* history: per page, TRUE once a webhook event wrote the page
  synced,     \* history: per page, TRUE when the last write of its card was a completed
              \*          sync step and the page was not edited since
  faulted,    \* history: TRUE once a handler ended in an error
  lastOp      \* history: the last handler that ran, with what recordStatusHistory saw

  ,
  pc,            \* pass: where syncProjects stands
  filteredPages, \* pass: the pages to process (page ids, in fetch order)
  batchStart,    \* pass: i of the batch loop
  pos,           \* pass: position in filteredPages of the next page to process
  syncLog,       \* pass: the SyncLog object of the running pass
  syncLogs,      \* collection 'sync_logs', in insertion order
  result,        \* pass: the SyncLog returned to the caller (NoResult if none)
  thrown,        \* pass: the error rethrown to the caller (NULL if none)
  err,           \* pass: the error caught by the outer catch
  passes,        \* history: passes started
  attempts,      \* history: per position, how often the page was attempted in this pass
  pageFailed,    \* history: positions whose page step raised in this pass
  fetchRaised,   \* history: the fetch of this pass raised
  logTries,      \* history: sync_logs inserts attempted by this pass
  logFails,      \* history: sync_logs inserts of this pass that raised
  logBase,       \* history: length of sync_logs when this pass started
  upserts        \* history: [done, raised]: some upsert of the pass succeeded, some raised
  ,
  wpc,           \* writers: where each writer stands
  wloc,          \* writers: the local variables of each writer
  wruns          \* history: handler runs started
  ,
  tdpc,          \* worklogs: where syncTimeDoctorWorklogs stands
  tdHasUsers,    \* collection 'timedoctor_users' holds a user with a time_doctor_id
  tdStart,       \* worklogs: startDate (instant)
  tdEnd,         \* worklogs: endDate (instant)
  tdI,           \* worklogs: i of the chunk loop
  currentStart,  \* worklogs: currentStart of the chunk loop
  allWorklogs,   \* worklogs: the aggregate, entries named by their start instant
  tdStored,      \* collection 'timedoctor_worklogs': the start instants stored
  tdRequests     \* history: the worklog requests issued, in order
  ,
  fpc,           \* fetch: where fetchAllPages stands
  fTotal,        \* Notion: number of items matching the query, item k at place k
  limit,         \* fetch: the limit argument (0: not given)
  allPages,      \* fetch: the items held
  cursor,        \* fetch: start_cursor of the next request (0: undefined)
  fRequests      \* history: the databases.query requests issued, in order
  ,
  wlDocs,            \* collection 'timedoctor_worklogs', in insertion order
  wlIgnoreUndefined, \* store client: undefined values are left out of a write (else written as null)
  wlSeen,            \* history: the worklogs persisted so far
  wlLast             \* history: the worklog persisted last, NULL if none
  ,
  mpc,           \* matching: "idle" before the matching function ran, "done" after
  teamMembers,   \* matching: the team members read from the store
  tdUser,        \* matching: the Time Doctor user to match
  userMatch,     \* matching: the notion_id matchMap holds for the user, NULL if none
  spc,            \* projects: "idle" before syncTimeDoctorProjects ran, "done" after
  tdProject,      \* projects: the Time Doctor project, [id, name]
  matchCards,     \* projects: the cards read from the store, in the order read
  clientOrder,    \* projects: the order in which the aggregation returns its groups
  projectMatch,   \* projects: the entry matchMap holds for the project
  notionClientId, \* projects: the client id written for the project, NULL if none
  clientVia       \* history: how the client id was found: "card", "exact", "partial", "none"
  ,
  metaPc,        \* metadata: "first", "synced", "edited", "resynced" (card) or "client"
  metaPage,      \* metadata: the properties of the Notion page, in the order of Object.entries
  cardMeta,      \* metadata: the metadata of the stored card
  prevMeta,      \* history: the metadata of the stored card before the last upsert
  clientMeta     \* metadata: the metadata of the stored client
  ,
  rcPc,            \* retired: where the projects pass stands
  clientId,        \* retired: the clientId argument of syncProjects, NULL if none
  retiredInStore,  \* retired: the clients the store flags is_retired
  retiredInNotion, \* retired: the clients whose Type is 'Retired' in Notion
  rcLookup,        \* history: "none", "store", "notion" or "raised": how getRetiredClientsMap ended
  retiredClients,  \* retired: the set getRetiredClientsMap returned
  projectPages,    \* retired: the project pages in Notion, each the set of its client ids
  rcFiltered,      \* retired: filteredPages, as positions of projectPages
  rcAttempted      \* history: the positions of the pages transformed so far
  ,
  dRoute,        \* endpoints: "daily" (/api/sync/daily) or "timedoctor" (/api/timedoctor/sync)
  syncSecret,    \* endpoints: process.env.SYNC_SECRET, NULL if not set
  authHeader,    \* endpoints: the Authorization header of the request, NULL if none
  envCreds,      \* endpoints: TIMEDOCTOR_API_TOKEN and TIMEDOCTOR_COMPANY_ID of the environment
  bodyCreds,     \* endpoints: api_token and company_id of the request body
  dPc,           \* endpoints: where the handler stands
  syncs,         \* endpoints: syncResults.syncs, per entity type "none", a status or "error"
  errors,        \* endpoints: syncResults.errors, the entity types in the order pushed
  dStatus,       \* endpoints: syncResults.status, "none" until set
  httpStatus,    \* endpoints: status of the response, 0 until responded
  passesRun,     \* history: the entity-type syncs that were called
  fetched,       \* history: the external services a request was sent to
  written,       \* history: the collections written
  mCards,        \* metrics: the cards collection read by calculateMetrics
  mNow,          \* metrics: the clock, in ticks since 1 January 2024 00:00
  metrics_cache, \* metrics: the metrics_cache collection, in insertion order
  mHistory,      \* history: <<period type, period start>> of every calculateMetrics run
  byDeveloper,   \* metrics: byDeveloper of the last calculateDaysLateMetrics
  completedDates, \* metrics: completedDate of the cards the last run resolved it for
  clientDocs,    \* client name: the clients collection, the name stored per client id (NULL: no record)
  nameLookup,  \* client name: the client lookup of the page being transformed
  epCall,        \* extractProperty: the property type, the property bag and the caller
  epResult,    \* extractProperty: how the call ended
  npName,        \* normalizePropertyName: the property name, a tuple of characters
  npOut,       \* normalizePropertyName: the name normalised once and twice
  whCards,       \* webhook: the cards collection, status by notion_id (NULL: no card)
  whHistory,     \* webhook: card_status_history, oldest first
  whEvent,     \* webhook: the last request handled and its response
  ftPc,          \* full Time Doctor sync: the stage syncTimeDoctor is at
  ftRan          \* full Time Doctor sync: the stages called, in order, with their outcome

storeVars == <<now, source, cards, history>>
ghostVars == <<expected, touched, synced, faulted, lastOp>>
histVars == <<now, source, cards, history, expected, touched, synced, faulted, lastOp>>
passVars == <<pc, filteredPages, batchStart, pos, syncLog, syncLogs, result, thrown, err,
              passes, attempts, pageFailed, fetchRaised, logTries, logFails, logBase,
              upserts>>

concVars == <<wpc, wloc, wruns>>
tdVars == <<tdpc, tdHasUsers, tdStart, tdEnd, tdI, currentStart, allWorklogs, tdStored,
            tdRequests>>

fetchVars == <<fpc, fTotal, limit, allPages, cursor, fRequests>>

\* the variables of the specifications that follow one function on its own
wlVars == <<wlDocs, wlIgnoreUndefined, wlSeen, wlLast>>

matchVars == <<mpc, teamMembers, tdUser, userMatch>>

projVars == <<spc, tdProject, matchCards, clientOrder, projectMatch, notionClientId,
              clientVia>>

metaVars == <<metaPc, metaPage, cardMeta, prevMeta, clientMeta>>

dailyVars == <<dRoute, syncSecret, authHeader, envCreds, bodyCreds, dPc, syncs, errors,
               dStatus, httpStatus, passesRun, fetched, written>>

metricsVars == <<mCards, mNow, metrics_cache, mHistory, byDeveloper, completedDates>>

lookupVars == <<clientDocs, nameLookup>>

extractVars == <<epCall, epResult>>

normVars == <<npName, npOut>>

whVars == <<whCards, whHistory, whEvent>>

fullVars == <<ftPc, ftRan>>

rcVars == <<rcPc, clientId, retiredInStore, retiredInNotion, rcLookup, retiredClients,
            projectPages, rcFiltered, rcAttempted>>

\* the groups every specification but their own leaves alone
coreVars == <<histVars, passVars, concVars, tdVars>>
ext1Vars == <<fetchVars, wlVars, matchVars, projVars>>
ext2Vars == <<metaVars, rcVars, dailyVars, metricsVars, lookupVars, extractVars, normVars, whVars, fullVars>>
exceptMeta == <<rcVars, dailyVars, metricsVars, lookupVars, extractVars, normVars, whVars, fullVars>>
exceptRetired == <<metaVars, dailyVars, metricsVars, lookupVars, extractVars, normVars, whVars, fullVars>>
exceptDaily == <<metaVars, rcVars, metricsVars, lookupVars, extractVars, normVars, whVars, fullVars>>
exceptMetrics == <<metaVars, rcVars, dailyVars, lookupVars, extractVars, normVars, whVars, fullVars>>
exceptLookup == <<metaVars, rcVars, dailyVars, metricsVars, extractVars, normVars, whVars, fullVars>>
exceptExtract == <<metaVars, rcVars, dailyVars, metricsVars, lookupVars, normVars, whVars, fullVars>>
exceptNorm == <<metaVars, rcVars, dailyVars, metricsVars, lookupVars, extractVars, whVars, fullVars>>
exceptWebhook == <<metaVars, rcVars, dailyVars, metricsVars, lookupVars, extractVars, normVars, fullVars>>
exceptFull == <<metaVars, rcVars, dailyVars, metricsVars, lookupVars, extractVars, normVars, whVars>>

extVars == <<ext1Vars, ext2Vars>>

vars == <<histVars, passVars, concVars, tdVars, extVars>>

(***************************************************************************)
(* Pure helpers                                                            *)
(***************************************************************************)
Range(s) == {s[i] : i \in DOMAIN s}

Last(s) == s[Len(s)]

\* JavaScript truthiness of an optional string
Truthy(v) == v # NULL

(***************************************************************************)
(* extractProperty for the two properties the history depends on           *)
(***************************************************************************)
\* case 'select': prop.select?.name || null
ExtractSelect(page) == IF Truthy(page.status) THEN page.status ELSE NULL

\* case 'last_edited_time': prop.last_edited_time ? new Date(..) : null (NOTIME)
ExtractLastEditedTime(page) == page.last_edited_time

(***************************************************************************)
(* transformProjectPage: the fields of the card that the sync and the      *)
(* history read (title, type, client and metadata are left out)            *)
(***************************************************************************)
TransformProjectPage(p, page, t) ==
  [ notion_id      |-> p,
    status         |-> ExtractSelect(page),
    updated_at     |-> IF ExtractLastEditedTime(page) # NOTIME
                         THEN ExtractLastEditedTime(page) ELSE t,
    last_synced_at |-> t ]

(***************************************************************************)
(* The store                                                               *)
(***************************************************************************)
\* db.collection('cards').findOne({ notion_id }): position of the first match, 0 if none
FindCard(cs, nid) ==
  IF \E i \in DOMAIN cs : cs[i].notion_id = nid
    THEN CHOOSE i \in DOMAIN cs :
           /\ cs[i].notion_id = nid
           /\ \A j \in DOMAIN cs : cs[j].notion_id = nid => i <= j
    ELSE 0

\* a write that inserts the card without looking for a record of its notion_id
UpsertCardInsert(cs, card) == Append(cs, card)

\* updateOne({ notion_id: card.notion_id }, { $set: card }, { upsert: true })
UpsertCard(cs, card) ==
  LET i == FindCard(cs, card.notion_id)
  IN IF i = 0 THEN Append(cs, card) ELSE [cs EXCEPT ![i] = card]

\* updateOne({ notion_id }, { $set: { status, updated_at, last_synced_at } }) without upsert
ArchiveCard(cs, nid, t) ==
  LET i == FindCard(cs, nid)
  IN IF i = 0 THEN cs
     ELSE [cs EXCEPT ![i] = [@ EXCEPT !.status = ARCHIVE, !.updated_at = t,
                                       !.last_synced_at = t]]

(***************************************************************************)
(* recordStatusHistory                                                     *)
(***************************************************************************)
\* cardDoc?._id?.toString() || card.notion_id
HistoryCardId(cs, card) ==
  LET i == FindCard(cs, card.notion_id)
  IN IF i # 0 THEN <<"oid", i>> ELSE <<"nid", card.notion_id>>

\* findOne({ card_id }, { sort: { changed_at: -1 } }): the positions the query may
\* return (0 = no record); records with equal changed_at are in unspecified order
LastHistoryChoices(h, cid) ==
  LET M == {i \in DOMAIN h : h[i].card_id = cid}
  IN IF M = {} THEN {0}
     ELSE {i \in M : \A j \in M : h[j].changed_at <= h[i].changed_at}

ShouldRecordAlways(h, li, card) == TRUE

\* if (!lastHistory || lastHistory.status !== card.status)
ShouldRecord(h, li, card) == li = 0 \/ h[li].status # card.status

HistoryRecord(cid, card, t) ==
  [ card_id     |-> cid,
    status      |-> IF Truthy(card.status) THEN card.status ELSE "Unknown",
    changed_at  |-> card.updated_at,
    detected_at |-> t,
    source      |-> "notion" ]

\* the whole function, given the record the lastHistory query returned
RecordStatusHistory(cs, h, card, t, li) ==
  IF ShouldRecord(h, li, card)
    THEN Append(h, HistoryRecord(HistoryCardId(cs, card), card, t))
    ELSE h

\* what one call saw and did (kept in lastOp)
RshCall(h, li, card) ==
  [ prior  |-> IF li = 0 THEN NULL ELSE h[li].status,
    status |-> card.status,
    wrote  |-> ShouldRecord(h, li, card) ]

NoCall == [prior |-> NULL, status |-> NULL, wrote |-> FALSE]

(***************************************************************************)
(* SpecHist: sequential writers of the cards collection                    *)
(***************************************************************************)
\* outcomes of one page step: completed, or raised in transform, in the upsert,
\* or in recordStatusHistory (after the upsert)
Outcomes == {"ok", "transform", "upsert", "history"}

Collapse(seq, s) == IF Len(seq) > 0 /\ Last(seq) = s THEN seq ELSE Append(seq, s)

NewSyncLog ==
  [status |-> "success", records_processed |-> 0, records_failed |-> 0,
   error_count |-> 0, error_message |-> NULL]

NoResult == [status |-> NULL, records_processed |-> 0, records_failed |-> 0,
             error_count |-> 0, error_message |-> NULL]

\* the pass variables before any pass has started
PassIdle ==
  /\ pc = "idle"
  /\ filteredPages = <<>>
  /\ batchStart = 0
  /\ pos = 1
  /\ syncLog = NewSyncLog
  /\ syncLogs = <<>>
  /\ result = NoResult
  /\ thrown = NULL
  /\ err = NULL
  /\ passes = 0
  /\ attempts = [k \in 1..MaxPages |-> 0]
  /\ pageFailed = {}
  /\ fetchRaised = FALSE
  /\ logTries = 0
  /\ logFails = 0
  /\ logBase = 0
  /\ upserts = [done |-> FALSE, raised |-> FALSE]

\* the two overlapping writers of SpecConc
Writers == {1, 2}

NoLocals == [kind |-> NULL, card |-> NULL, prev |-> NULL, upserted |-> FALSE,
             cid |-> NULL, call |-> 0]

\* the writer variables before any writer has started
ConcIdle ==
  /\ wpc = [w \in Writers |-> "idle"]
  /\ wloc = [w \in Writers |-> NoLocals]
  /\ wruns = 0

\* the worklog sync before it has started
TDIdle ==
  /\ tdpc = "idle"
  /\ tdHasUsers = TRUE
  /\ tdStart = 0
  /\ tdEnd = 0
  /\ tdI = 0
  /\ currentStart = 0
  /\ allWorklogs = <<>>
  /\ tdStored = {}
  /\ tdRequests = <<>>

\* fetchAllPages before it is called
FetchIdle ==
  /\ fpc = "idle"
  /\ fTotal = 0
  /\ limit = 0
  /\ allPages = <<>>
  /\ cursor = 0
  /\ fRequests = <<>>

\* the worklog persistence before any worklog was persisted
WLIdle ==
  /\ wlDocs = <<>>
  /\ wlIgnoreUndefined = FALSE
  /\ wlSeen = {}
  /\ wlLast = NULL

\* the matching functions before they are called
MatchIdle ==
  /\ mpc = "idle"
  /\ teamMembers = <<>>
  /\ tdUser = NULL
  /\ userMatch = NULL

\* matchMap.get(id) of a project no card matched
NoMatch == [cardId |-> NULL, clientId |-> NULL]

\* syncTimeDoctorProjects before it is called
ProjIdle ==
  /\ spc = "idle"
  /\ tdProject = NULL
  /\ matchCards = <<>>
  /\ clientOrder = <<>>
  /\ projectMatch = NoMatch
  /\ notionClientId = NULL
  /\ clientVia = "none"

\* the metadata keys the model follows; NULL stands for a key that is absent
MetaKeys == {"type", "projected_dev_hours", "notes", "archive"}

\* const metadata = {} / const extractedProperties = {}
NoMeta == [k \in MetaKeys |-> NULL]

\* the transforms before any page was handled
MetaIdle ==
  /\ metaPc = "first"
  /\ metaPage = <<>>
  /\ cardMeta = NoMeta
  /\ prevMeta = NoMeta
  /\ clientMeta = NoMeta

\* syncProjects with its retired-client filter, before it is called
RetiredIdle ==
  /\ rcPc = "idle"
  /\ clientId = NULL
  /\ retiredInStore = {}
  /\ retiredInNotion = {}
  /\ rcLookup = "none"
  /\ retiredClients = {}
  /\ projectPages = <<>>
  /\ rcFiltered = <<>>
  /\ rcAttempted = {}

\* the entity types of the daily sync, in the order they are synced
EntityTypes == <<"team_members", "qi_time_tracker", "time_doctor">>

NoCreds == [apiToken |-> NULL, companyId |-> NULL]

\* the endpoints before a request arrives
DailyIdle ==
  /\ dRoute = "daily"
  /\ syncSecret = NULL
  /\ authHeader = NULL
  /\ envCreds = NoCreds
  /\ bodyCreds = NoCreds
  /\ dPc = "idle"
  /\ syncs = [e \in {EntityTypes[i] : i \in DOMAIN EntityTypes} |-> "none"]
  /\ errors = <<>>
  /\ dStatus = "none"
  /\ httpStatus = 0
  /\ passesRun = {}
  /\ fetched = {}
  /\ written = {}

\* the metrics before the first calculateMetrics, with no card
MetricsIdle ==
  /\ mCards = <<>>
  /\ mNow = 0
  /\ metrics_cache = <<>>
  /\ mHistory = <<>>
  /\ byDeveloper = <<>>
  /\ completedDates = <<>>

ClientPageIds == {"c1", "c2"}

NoLookup == [called |-> FALSE, client |-> <<>>, client_id |-> NULL, client_name |-> NULL,
             retrieved |-> {}]

\* no client synced, no page being transformed
LookupIdle ==
  /\ clientDocs = [c \in ClientPageIds |-> NULL]
  /\ nameLookup = NoLookup

NoExtract == [done |-> FALSE, raised |-> FALSE, value |-> "null", aborted |-> FALSE]

\* no extractProperty call
ExtractIdle ==
  /\ epCall = [type |-> "title", byId |-> "absent", byName |-> "absent", caller |-> "direct"]
  /\ epResult = NoExtract

NoNorm == [done |-> FALSE, once |-> <<>>, twice |-> <<>>]

\* no name normalised
NormIdle ==
  /\ npName = <<>>
  /\ npOut = NoNorm

\* the page ids the webhook is called about
WhPageIds == {"w1"}

NoEvent == [page_id |-> NULL, parent |-> [type |-> NULL, database_id |-> <<>>],
            projectsDbId |-> <<>>, message |-> NULL]

\* no webhook request handled
WebhookIdle ==
  /\ whCards = [p \in WhPageIds |-> NULL]
  /\ whHistory = <<>>
  /\ whEvent = NoEvent

\* syncTimeDoctor not called
FullIdle ==
  /\ ftPc = "idle"
  /\ ftRan = <<>>

Ext1Idle == FetchIdle /\ WLIdle /\ MatchIdle /\ ProjIdle

Ext2Idle == MetaIdle /\ RetiredIdle /\ DailyIdle /\ MetricsIdle /\ LookupIdle /\ ExtractIdle /\ NormIdle /\ WebhookIdle /\ FullIdle
exceptMetaIdle == RetiredIdle /\ DailyIdle /\ MetricsIdle /\ LookupIdle /\ ExtractIdle /\ NormIdle /\ WebhookIdle /\ FullIdle
exceptRetiredIdle == MetaIdle /\ DailyIdle /\ MetricsIdle /\ LookupIdle /\ ExtractIdle /\ NormIdle /\ WebhookIdle /\ FullIdle
exceptDailyIdle == MetaIdle /\ RetiredIdle /\ MetricsIdle /\ LookupIdle /\ ExtractIdle /\ NormIdle /\ WebhookIdle /\ FullIdle
exceptMetricsIdle == MetaIdle /\ RetiredIdle /\ DailyIdle /\ LookupIdle /\ ExtractIdle /\ NormIdle /\ WebhookIdle /\ FullIdle
exceptLookupIdle == MetaIdle /\ RetiredIdle /\ DailyIdle /\ MetricsIdle /\ ExtractIdle /\ NormIdle /\ WebhookIdle /\ FullIdle
exceptExtractIdle == MetaIdle /\ RetiredIdle /\ DailyIdle /\ MetricsIdle /\ LookupIdle /\ NormIdle /\ WebhookIdle /\ FullIdle
exceptNormIdle == MetaIdle /\ RetiredIdle /\ DailyIdle /\ MetricsIdle /\ LookupIdle /\ ExtractIdle /\ WebhookIdle /\ FullIdle
exceptWebhookIdle == MetaIdle /\ RetiredIdle /\ DailyIdle /\ MetricsIdle /\ LookupIdle /\ ExtractIdle /\ NormIdle /\ FullIdle
exceptFullIdle == MetaIdle /\ RetiredIdle /\ DailyIdle /\ MetricsIdle /\ LookupIdle /\ ExtractIdle /\ NormIdle /\ WebhookIdle

ExtIdle == Ext1Idle /\ Ext2Idle

\* the history variables of SpecHist where they are not followed
GhostIdle ==
  /\ expected = <<>>
  /\ touched = <<>>
  /\ synced = <<>>
  /\ faulted = FALSE
  /\ lastOp = [op |-> "init", page |-> 0, outcome |-> "ok", called |-> FALSE, call |-> NoCall]

InitHist ==
  /\ ExtIdle
  /\ PassIdle
  /\ ConcIdle
  /\ TDIdle
  /\ now = 0
  \* the statuses are interchangeable: a page starts with the first one or with none
  /\ source \in [PageIds -> [status : {"A", NULL}, last_edited_time : {0}]]
  /\ cards = <<>>
  /\ history = <<>>
  /\ expected = [p \in PageIds |-> <<>>]
  /\ touched = [p \in PageIds |-> FALSE]
  /\ synced = [p \in PageIds |-> FALSE]
  /\ faulted = FALSE
  /\ lastOp = [op |-> "init", page |-> 0, outcome |-> "ok", called |-> FALSE, call |-> NoCall]

\* time passes
Tick ==
  /\ now < MaxTime
  /\ now' = now + 1
  /\ lastOp' = [op |-> "tick", page |-> 0, outcome |-> "ok", called |-> FALSE, call |-> NoCall]
  /\ UNCHANGED <<source, cards, history, expected, touched, synced, faulted>>
  /\ UNCHANGED <<passVars, concVars, tdVars, extVars>>

\* a user changes the Status of a page in Notion; the edit is later than the previous one
EditPage(p, s) ==
  /\ source[p].last_edited_time < now
  /\ s # source[p].status
  /\ source' = [source EXCEPT ![p] = [status |-> s, last_edited_time |-> now]]
  /\ synced' = [synced EXCEPT ![p] = FALSE]
  /\ lastOp' = [op |-> "edit", page |-> p, outcome |-> "ok", called |-> FALSE, call |-> NoCall]
  /\ UNCHANGED <<now, cards, history, expected, touched, faulted>>
  /\ UNCHANGED <<passVars, concVars, tdVars, extVars>>

\* syncProjects, the body of the page loop for one page: transform, upsert by
\* notion_id, recordStatusHistory; a raise anywhere is caught by the loop
SyncPage(p, o) ==
  LET card == TransformProjectPage(p, source[p], now)
      cs   == UpsertCard(cards, card)
  IN /\ \E li \in LastHistoryChoices(history, HistoryCardId(cs, card)) :
          /\ cards' = IF o \in {"ok", "history"} THEN cs ELSE cards
          /\ history' = IF o = "ok" THEN RecordStatusHistory(cs, history, card, now, li)
                        ELSE history
          /\ Len(history') <= MaxHist
          /\ lastOp' = [op |-> "sync", page |-> p, outcome |-> o, called |-> (o = "ok"),
                        call |-> IF o = "ok" THEN RshCall(history, li, card) ELSE NoCall]
     /\ expected' = IF o = "ok" THEN [expected EXCEPT ![p] = Collapse(@, card.status)]
                    ELSE expected
     /\ synced' = [synced EXCEPT ![p] = IF o = "ok" THEN TRUE
                                          ELSE IF o = "history" THEN FALSE ELSE @]
     /\ faulted' = (faulted \/ o # "ok")
     /\ UNCHANGED <<now, source, touched>>
     /\ UNCHANGED <<passVars, concVars, tdVars, extVars>>

\* webhook POST, page.content_updated / page.added_to_database (or a pageData
\* snapshot that is not archived): transform, read the existing card, upsert,
\* then recordStatusHistory when the previous status differs or the card is new
WebhookUpdate(p, o) ==
  LET card           == TransformProjectPage(p, source[p], now)
      existing       == FindCard(cards, p)
      previousStatus == IF existing = 0 THEN NULL ELSE cards[existing].status
      cs             == UpsertCard(cards, card)
      upserted       == existing = 0
      calls          == \/ Truthy(previousStatus) /\ previousStatus # card.status
                        \/ upserted /\ Truthy(card.status)
  IN /\ \E li \in LastHistoryChoices(history, HistoryCardId(cs, card)) :
          /\ cards' = IF o \in {"ok", "history"} THEN cs ELSE cards
          /\ history' = IF o = "ok" /\ calls
                          THEN RecordStatusHistory(cs, history, card, now, li)
                          ELSE history
          /\ Len(history') <= MaxHist
          /\ lastOp' = [op |-> "webhook", page |-> p, outcome |-> o,
                        called |-> (o = "ok" /\ calls),
                        call |-> IF o = "ok" /\ calls THEN RshCall(history, li, card)
                                 ELSE NoCall]
     /\ touched' = [touched EXCEPT ![p] = @ \/ o \in {"ok", "history"}]
     /\ synced' = [synced EXCEPT ![p] = IF o \in {"ok", "history"} THEN FALSE ELSE @]
     /\ faulted' = (faulted \/ o # "ok")
     /\ UNCHANGED <<now, source, expected>>
     /\ UNCHANGED <<passVars, concVars, tdVars, extVars>>

\* webhook POST, page.removed_from_database / page.deleted (or an archived
\* pageData snapshot): the card is marked archived, no history is recorded
WebhookRemove(p, o) ==
  /\ o \in {"ok", "upsert"}
  /\ cards' = IF o = "ok" THEN ArchiveCard(cards, p, now) ELSE cards
  /\ lastOp' = [op |-> "remove", page |-> p, outcome |-> o, called |-> FALSE,
                call |-> NoCall]
  /\ touched' = [touched EXCEPT ![p] = @ \/ (o = "ok" /\ FindCard(cards, p) # 0)]
  /\ synced' = [synced EXCEPT ![p] = IF o = "ok" /\ FindCard(cards, p) # 0 THEN FALSE ELSE @]
  /\ faulted' = (faulted \/ o # "ok")
  /\ UNCHANGED <<now, source, history, expected>>
  /\ UNCHANGED <<passVars, concVars, tdVars, extVars>>

\* a raise of the transform and a raise of the upsert leave the same store: one
\* outcome, "upsert", stands for a raise before the card is written
HistOutcomes == Outcomes \ {"transform"}

NextHist ==
  \/ Tick
  \/ \E p \in PageIds, s \in Statuses \cup {NULL} : EditPage(p, s)
  \/ \E p \in PageIds, o \in HistOutcomes : SyncPage(p, o)
  \/ \E p \in PageIds, o \in HistOutcomes : WebhookUpdate(p, o)
  \/ \E p \in PageIds, o \in HistOutcomes : WebhookRemove(p, o)

SpecHist == InitHist /\ [][NextHist]_vars

(***************************************************************************)
(* Status history of one card (SpecHist)                                   *)
(***************************************************************************)
\* history records of the card of page p, in insertion order
HistoryOf(p) ==
  LET i == FindCard(cards, p)
  IN SelectSeq(history, LAMBDA r : r.card_id = <<"oid", i>>)

HistoryStatuses(p) == [k \in DOMAIN HistoryOf(p) |-> HistoryOf(p)[k].status]

NoConsecutiveRepeat(seq) == \A k \in 1..(Len(seq) - 1) : seq[k] # seq[k + 1]

C2_WriteIff ==
  lastOp.called =>
    (lastOp.call.wrote <=>
       IF lastOp.call.prior # NULL
         THEN lastOp.call.prior # lastOp.call.status
         ELSE Truthy(lastOp.call.status))

\* C8: after completed sync steps and webhook events, a stored card that has a
\* status has that status in its most recent history record.
C8_LatestMatchesCard ==
  ~faulted =>
    \A p \in PageIds :
      LET i == FindCard(cards, p)
      IN (i # 0 /\ Truthy(cards[i].status)) =>
           /\ Len(HistoryOf(p)) > 0
           /\ Last(HistoryOf(p)).status = cards[i].status

\* C9: a completed sync step of a page that was synced before and not edited
\* (nor written by a webhook) since leaves the cards as they were and writes
\* no history record.
C9_RerunIdempotent ==
  [][ \A p \in PageIds :
        (lastOp'.op = "sync" /\ lastOp'.page = p /\ lastOp'.outcome = "ok" /\ synced[p])
          => (cards' = cards /\ history' = history) ]_vars

(***************************************************************************)
(* SpecPass: one sync pass (syncProjects) from start to finalisation       *)
(***************************************************************************)
Min(a, b) == IF a < b THEN a ELSE b

\* the Projects database served to the pass: n pages with a fixed sample of statuses
PassStatus(p) == IF p % 3 = 1 THEN "A" ELSE IF p % 3 = 2 THEN NULL ELSE "B"

PassSource(n) == [p \in 1..n |-> [status |-> PassStatus(p), last_edited_time |-> 0]]

CountPageLost(log, o) ==
  IF o = "ok" THEN [log EXCEPT !.records_processed = @ + 1]
  ELSE [log EXCEPT !.error_count = @ + 1]

\* a count that adds a failed page to both counters
CountPageBoth(log, o) ==
  IF o = "ok" THEN [log EXCEPT !.records_processed = @ + 1]
  ELSE [log EXCEPT !.records_processed = @ + 1, !.records_failed = @ + 1,
                   !.error_count = @ + 1]

\* syncLog.records_processed++ at the end of the try block of a page,
\* syncLog.records_failed++ and error_count++ in its catch block
CountPage(log, o) ==
  IF o = "ok" THEN [log EXCEPT !.records_processed = @ + 1]
  ELSE [log EXCEPT !.records_failed = @ + 1, !.error_count = @ + 1]

\* syncLog.status = syncLog.records_failed > 0 ? 'partial' : 'success'
FinalStatus(log) == IF log.records_failed > 0 THEN "partial" ELSE "success"

\* filteredPages.slice(i, i + BATCH_SIZE): position of the last page of the batch
BatchEnd == Min(batchStart + BATCH_SIZE, Len(filteredPages))

InitPass ==
  /\ ExtIdle
  /\ PassIdle
  /\ ConcIdle
  /\ TDIdle
  /\ GhostIdle
  /\ now = 0
  /\ \E n \in 0..MaxPages : source = PassSource(n)
  /\ cards = <<>>
  /\ history = <<>>

\* syncProjects is called: the SyncLog object is created
StartPass ==
  /\ pc \in {"idle", "returned", "thrown"}
  /\ passes < MaxPasses
  /\ pc' = "fetching"
  /\ passes' = passes + 1
  /\ syncLog' = NewSyncLog
  /\ filteredPages' = <<>>
  /\ batchStart' = 0
  /\ pos' = 1
  /\ result' = NoResult
  /\ thrown' = NULL
  /\ err' = NULL
  /\ attempts' = [k \in 1..MaxPages |-> 0]
  /\ pageFailed' = {}
  /\ fetchRaised' = FALSE
  /\ logTries' = 0
  /\ logFails' = 0
  /\ logBase' = Len(syncLogs)
  /\ upserts' = [done |-> FALSE, raised |-> FALSE]
  /\ UNCHANGED <<syncLogs, storeVars, ghostVars, concVars, tdVars, extVars>>

\* fetchAllPages(PROJECTS_DB_ID, ..) returns the pages or raises
Fetch(ok) ==
  /\ pc = "fetching"
  /\ IF ok
       THEN /\ filteredPages' = [k \in DOMAIN source |-> k]
            /\ pc' = IF Len(source) > 0 THEN "loop" ELSE "finalize"
            /\ UNCHANGED <<err, fetchRaised>>
       ELSE /\ pc' = "catch"
            /\ err' = "fetch"
            /\ fetchRaised' = TRUE
            /\ UNCHANGED filteredPages
  /\ UNCHANGED <<batchStart, pos, syncLog, syncLogs, result, thrown, passes, attempts,
                 pageFailed, logTries, logFails, logBase, upserts, storeVars, ghostVars, concVars, tdVars, extVars>>

\* the body of the page loop for the next page of the batch
ProcessPage(o) ==
  /\ pc = "loop"
  /\ pos <= BatchEnd
  /\ LET p    == filteredPages[pos]
         card == TransformProjectPage(p, source[p], now)
         cs   == UpsertCard(cards, card)
     IN \E li \in LastHistoryChoices(history, HistoryCardId(cs, card)) :
          /\ cards' = IF o \in {"ok", "history"} THEN cs ELSE cards
          /\ history' = IF o = "ok" THEN RecordStatusHistory(cs, history, card, now, li)
                        ELSE history
  /\ syncLog' = CountPage(syncLog, o)
  /\ attempts' = [attempts EXCEPT ![pos] = @ + 1]
  /\ pageFailed' = IF o = "ok" THEN pageFailed ELSE pageFailed \cup {pos}
  /\ upserts' = [done   |-> upserts.done \/ o \in {"ok", "history"},
                  raised |-> upserts.raised \/ o = "upsert"]
  /\ pos' = pos + 1
  /\ UNCHANGED <<pc, filteredPages, batchStart, syncLogs, result, thrown, err, passes,
                 fetchRaised, logTries, logFails, logBase, now, source, ghostVars, concVars, tdVars, extVars>>

\* an end of batch that inserts the SyncLog into sync_logs before the next batch
EndBatchLogged ==
  /\ pc = "loop"
  /\ pos > BatchEnd
  /\ batchStart' = batchStart + BATCH_SIZE
  /\ syncLogs' = Append(syncLogs, syncLog)
  /\ pc' = IF batchStart + BATCH_SIZE < Len(filteredPages) THEN "loop" ELSE "finalize"
  /\ UNCHANGED <<filteredPages, pos, syncLog, result, thrown, err, passes,
                 attempts, pageFailed, fetchRaised, logTries, logFails, logBase, upserts,
                 storeVars, ghostVars, concVars, tdVars, extVars>>

\* the batch is done: i += BATCH_SIZE, and the loop goes on (after the delay) while
\* i < filteredPages.length
EndBatch ==
  /\ pc = "loop"
  /\ pos > BatchEnd
  /\ batchStart' = batchStart + BATCH_SIZE
  /\ pc' = IF batchStart + BATCH_SIZE < Len(filteredPages) THEN "loop" ELSE "finalize"
  /\ UNCHANGED <<filteredPages, pos, syncLog, syncLogs, result, thrown, err, passes,
                 attempts, pageFailed, fetchRaised, logTries, logFails, logBase, upserts,
                 storeVars, ghostVars, concVars, tdVars, extVars>>

\* a finalisation that returns the SyncLog without inserting it into sync_logs
FinalizeUnlogged(ok) ==
  /\ pc = "finalize"
  /\ syncLog' = [syncLog EXCEPT !.status = FinalStatus(syncLog)]
  /\ logTries' = logTries + 1
  /\ result' = syncLog'
  /\ pc' = "returned"
  /\ UNCHANGED <<syncLogs, err, logFails>>
  /\ UNCHANGED <<filteredPages, batchStart, pos, thrown, passes, attempts, pageFailed,
                 fetchRaised, logBase, upserts, storeVars, ghostVars, concVars, tdVars, extVars>>

\* after the loop: the status is set, the SyncLog is inserted into sync_logs and
\* returned; a raise of the insert is inside the try block
Finalize(ok) ==
  /\ pc = "finalize"
  /\ syncLog' = [syncLog EXCEPT !.status = FinalStatus(syncLog)]
  /\ logTries' = logTries + 1
  /\ IF ok
       THEN /\ syncLogs' = Append(syncLogs, syncLog')
            /\ result' = syncLog'
            /\ pc' = "returned"
            /\ UNCHANGED <<err, logFails>>
       ELSE /\ pc' = "catch"
            /\ err' = "log"
            /\ logFails' = logFails + 1
            /\ UNCHANGED <<syncLogs, result>>
  /\ UNCHANGED <<filteredPages, batchStart, pos, thrown, passes, attempts, pageFailed,
                 fetchRaised, logBase, upserts, storeVars, ghostVars, concVars, tdVars, extVars>>

\* the outer catch: status 'failed', the SyncLog is inserted and the caught error
\* rethrown; a raise of this insert leaves the catch block in its place
Catch(ok) ==
  /\ pc = "catch"
  /\ syncLog' = [syncLog EXCEPT !.status = "failed", !.error_message = err]
  /\ logTries' = logTries + 1
  /\ IF ok
       THEN /\ syncLogs' = Append(syncLogs, syncLog')
            /\ thrown' = err
            /\ UNCHANGED logFails
       ELSE /\ thrown' = "log"
            /\ logFails' = logFails + 1
            /\ UNCHANGED syncLogs
  /\ pc' = "thrown"
  /\ UNCHANGED <<filteredPages, batchStart, pos, result, err, passes, attempts,
                 pageFailed, fetchRaised, logBase, upserts, storeVars, ghostVars, concVars, tdVars, extVars>>

NextPass ==
  \/ StartPass
  \/ \E ok \in BOOLEAN : Fetch(ok)
  \/ \E o \in Outcomes : ProcessPage(o)
  \/ EndBatch
  \/ \E ok \in BOOLEAN : Finalize(ok)
  \/ \E ok \in BOOLEAN : Catch(ok)

SpecPass == InitPass /\ [][NextPass]_vars

\* every store and network call of a pass settles
FairSpecPass ==
  /\ SpecPass
  /\ WF_vars(\E ok \in BOOLEAN : Fetch(ok))
  /\ WF_vars(\E o \in Outcomes : ProcessPage(o))
  /\ WF_vars(EndBatch)
  /\ WF_vars(\E ok \in BOOLEAN : Finalize(ok))
  /\ WF_vars(\E ok \in BOOLEAN : Catch(ok))

(***************************************************************************)
(* Failure accounting and finalisation of a pass (SpecPass)                *)
(***************************************************************************)
PassEnded == pc \in {"returned", "thrown"}

\* the page loop of the running pass has run to its end
LoopDone == pc \in {"finalize", "returned"} \/ (pc \in {"catch", "thrown"} /\ ~fetchRaised)

\* the sync_logs records appended by the running pass
Appended == SubSeq(syncLogs, logBase + 1, Len(syncLogs))

RunStatuses == {"success", "partial", "failed"}

\* C3: after the page loop over N pages of which k raised, records_processed
\* = N - k and records_failed = k, every page was attempted exactly once, and
\* the SyncLog returned is 'partial' if k > 0, else 'success', and is the
\* record appended to sync_logs.
C3_Accounting ==
  LET N == Len(filteredPages)
      k == Cardinality(pageFailed)
  IN /\ LoopDone =>
          /\ syncLog.records_processed = N - k
          /\ syncLog.records_failed = k
          /\ \A q \in 1..MaxPages : attempts[q] = IF q <= N THEN 1 ELSE 0
     /\ pc = "returned" =>
          /\ result.records_processed = N - k
          /\ result.records_failed = k
          /\ result.status = IF k > 0 THEN "partial" ELSE "success"
          /\ Appended = <<result>>

\* C3 witness: a returned pass of three pages in two batches, the first page
\* raised and the pages after it, the one of the second batch included, did not
C3_Witness ==
  /\ pc = "returned"
  /\ Len(filteredPages) = 3
  /\ pageFailed = {1}
  /\ result.status = "partial"
  /\ result.records_processed = 2 /\ result.records_failed = 1

\* C4 as stated: a pass that ended has appended exactly one record, with a
\* status of success, partial or failed.
C4_ExactlyOneRecord ==
  PassEnded => (Len(Appended) = 1 /\ Appended[1].status \in RunStatuses)

\* C4, amended: every started pass ends, and has then appended exactly one
\* record with a status of success, partial or failed, unless every insert
\* into sync_logs it attempted raised, in which case it appended none.
C4_Finalizes ==
  /\ [](PassEnded =>
          IF logFails = logTries THEN Len(Appended) = 0
          ELSE Len(Appended) = 1 /\ Appended[1].status \in RunStatuses)
  /\ [](pc = "fetching" => <>PassEnded)

\* C4 witness: a pass whose fetch raised has ended with its one 'failed' record
C4_Witness ==
  /\ PassEnded /\ fetchRaised /\ logFails = 0
  /\ Len(Appended) = 1 /\ Appended[1].status = "failed"

\* C5: a raise of the sync_logs insert never replaces the primary result: the
\* pass whose loop completed returns its success/partial summary, the pass
\* whose fetch raised rethrows the fetch error.
C5_LogFailureSwallowed ==
  (PassEnded /\ logFails > 0) =>
    IF fetchRaised THEN thrown = "fetch"
    ELSE pc = "returned" /\ result.status \in {"success", "partial"}

\* C6: a 'failed' record has records_processed = 0 and records_failed = 0, and
\* a pass whose page loop completed is neither recorded nor reported as failed.
C6_FailedOnlyOnFetch ==
  /\ \A i \in DOMAIN syncLogs :
       syncLogs[i].status = "failed" =>
         (syncLogs[i].records_processed = 0 /\ syncLogs[i].records_failed = 0)
  /\ (PassEnded /\ ~fetchRaised) => syncLog.status # "failed"

(***************************************************************************)
(* SpecConc: two writers of one card, one store call per step              *)
(***************************************************************************)
InitConc ==
  /\ ExtIdle
  /\ PassIdle
  /\ ConcIdle
  /\ TDIdle
  /\ now = 0
  \* the statuses are interchangeable: a page starts with the first one
  /\ source \in [PageIds -> [status : {"A"}, last_edited_time : {0}]]
  /\ cards = <<>>
  /\ history = <<>>
  /\ expected = [p \in PageIds |-> <<>>]
  /\ touched = [p \in PageIds |-> FALSE]
  /\ synced = [p \in PageIds |-> FALSE]
  /\ faulted = FALSE
  /\ lastOp = [op |-> "init", page |-> 0, outcome |-> "ok", called |-> FALSE, call |-> NoCall]

\* the webhook's two guarded calls of recordStatusHistory:
\*   if (previousStatus && previousStatus !== card.status)
\*   if (result.upsertedCount > 0 && card.status)
WebhookFirstCall(l) == Truthy(l.prev) /\ l.prev # l.card.status

WebhookSecondCall(l) == l.upserted /\ Truthy(l.card.status)

\* where a writer goes after its upsert: <<pc, number of the call>>
AfterUpsert(l) ==
  IF l.kind = "sync" THEN <<"rshCard", 2>>
  ELSE IF WebhookFirstCall(l) THEN <<"rshCard", 1>>
  ELSE IF WebhookSecondCall(l) THEN <<"rshCard", 2>>
  ELSE <<"idle", 0>>

\* where a writer goes after a call of recordStatusHistory
AfterCall(l) ==
  IF l.kind = "webhook" /\ l.call = 1 /\ WebhookSecondCall(l) THEN <<"rshCard", 2>>
  ELSE <<"idle", 0>>

\* a handler starts for page p and transforms the page: the page loop of a sync
\* pass, or the webhook POST for an updated page
WStart(w, kind, p) ==
  /\ wpc[w] = "idle"
  /\ wruns < MaxRuns
  /\ wruns' = wruns + 1
  /\ wloc' = [wloc EXCEPT ![w] = [NoLocals EXCEPT !.kind = kind,
                                    !.card = TransformProjectPage(p, source[p], now)]]
  /\ wpc' = [wpc EXCEPT ![w] = IF kind = "sync" THEN "upsert" ELSE "readExisting"]
  /\ UNCHANGED <<histVars, passVars, tdVars, extVars>>

\* webhook: existingCard = findOne({ notion_id: pageId })
WReadExisting(w) ==
  /\ wpc[w] = "readExisting"
  /\ LET i == FindCard(cards, wloc[w].card.notion_id)
     IN wloc' = [wloc EXCEPT ![w].prev = IF i = 0 THEN NULL ELSE cards[i].status]
  /\ wpc' = [wpc EXCEPT ![w] = "upsert"]
  /\ UNCHANGED <<wruns, histVars, passVars, tdVars, extVars>>

\* updateOne({ notion_id }, { $set: card }, { upsert: true })
WUpsert(w) ==
  /\ wpc[w] = "upsert"
  /\ cards' = UpsertCard(cards, wloc[w].card)
  /\ LET l == [wloc[w] EXCEPT !.upserted = (FindCard(cards, wloc[w].card.notion_id) = 0)]
     IN /\ wloc' = [wloc EXCEPT ![w] = [l EXCEPT !.call = AfterUpsert(l)[2]]]
        /\ wpc' = [wpc EXCEPT ![w] = AfterUpsert(l)[1]]
  /\ UNCHANGED <<wruns, now, source, history, ghostVars, passVars, tdVars, extVars>>

\* recordStatusHistory: cardDoc = findOne({ notion_id }), cardId
WRshCard(w) ==
  /\ wpc[w] = "rshCard"
  /\ wloc' = [wloc EXCEPT ![w].cid = HistoryCardId(cards, wloc[w].card)]
  /\ wpc' = [wpc EXCEPT ![w] = "rshLast"]
  /\ UNCHANGED <<wruns, histVars, passVars, tdVars, extVars>>

\* recordStatusHistory: lastHistory = findOne({ card_id }, sort changed_at desc),
\* and the test of the if
WRshLast(w) ==
  /\ wpc[w] = "rshLast"
  /\ \E li \in LastHistoryChoices(history, wloc[w].cid) :
       IF ShouldRecord(history, li, wloc[w].card)
         THEN /\ wpc' = [wpc EXCEPT ![w] = "rshInsert"]
              /\ UNCHANGED wloc
         ELSE /\ wpc' = [wpc EXCEPT ![w] = AfterCall(wloc[w])[1]]
              /\ wloc' = [wloc EXCEPT ![w].call = AfterCall(wloc[w])[2]]
  /\ UNCHANGED <<wruns, histVars, passVars, tdVars, extVars>>

\* recordStatusHistory: insertOne(history)
WRshInsert(w) ==
  /\ wpc[w] = "rshInsert"
  /\ Len(history) < MaxHist
  /\ history' = Append(history, HistoryRecord(wloc[w].cid, wloc[w].card, now))
  /\ wpc' = [wpc EXCEPT ![w] = AfterCall(wloc[w])[1]]
  /\ wloc' = [wloc EXCEPT ![w].call = AfterCall(wloc[w])[2]]
  /\ UNCHANGED <<wruns, now, source, cards, ghostVars, passVars, tdVars, extVars>>

NextConc ==
  \/ Tick
  \/ \E p \in PageIds, s \in Statuses : EditPage(p, s)
  \/ \E w \in Writers, kind \in {"sync", "webhook"}, p \in PageIds : WStart(w, kind, p)
  \/ \E w \in Writers : WReadExisting(w)
  \/ \E w \in Writers : WUpsert(w)
  \/ \E w \in Writers : WRshCard(w)
  \/ \E w \in Writers : WRshLast(w)
  \/ \E w \in Writers : WRshInsert(w)

SpecConc == InitConc /\ [][NextConc]_vars

\* C7: with two overlapping writers of one card, each carrying a status, the
\* history of the card has no two consecutive records with the same status.
C7_NoRepeatUnderOverlap == \A p \in PageIds : NoConsecutiveRepeat(HistoryStatuses(p))

(***************************************************************************)
(* SpecTD: syncTimeDoctorWorklogs, the chunked range fetch                 *)
(***************************************************************************)
\* const CHUNK_DAYS = 7
CHUNK_DAYS == 7
\* the 3-day chunks of the retry: smallChunkEnd.setDate(.. + 3)
SMALL_CHUNK_DAYS == 3

Days(d) == d * TicksPerDay

\* Math.ceil(a / b) for a >= 0, b > 0
CeilDiv(a, b) == (a + b - 1) \div b

\* outcomes of one worklog request: entries, the in-band 'range too wide'
\* error, or another failure (HTTP status, network)
TDOutcomes == {"ok", "range", "error"}

\* the Time Doctor account has one worklog entry starting at every instant;
\* a request from..to that succeeds returns those of from..to, in order
EntriesIn(from, to) == [k \in 1..(to - from + 1) |-> from + k - 1]

\* the try block of fetchTimeDoctorWorklogs: the entries, or a raise which is
\* a range error when the response carries the 'range too wide' error field
FetchTry(from, to, o) ==
  IF o = "ok" THEN [raised |-> FALSE, range |-> FALSE, entries |-> EntriesIn(from, to)]
  ELSE [raised |-> TRUE, range |-> (o = "range"), entries |-> <<>>]

\* fetchTimeDoctorWorklogs: its catch block returns [] for every raise of the try block
FetchTimeDoctorWorklogs(from, to, o) ==
  IF FetchTry(from, to, o).raised
    THEN [raised |-> FALSE, range |-> FALSE, entries |-> <<>>]
    ELSE FetchTry(from, to, o)

\* the while loop of the retry over from..to with outcomes subs[1], subs[2], ..:
\* the entries of the 3-day chunks whose request did not raise
RECURSIVE SmallChunks(_, _, _, _)
SmallChunks(smallStart, chunkEndDate, subs, n) ==
  IF smallStart < chunkEndDate
    THEN LET smallEnd == smallStart + Days(SMALL_CHUNK_DAYS)
             finalEnd == IF smallEnd > chunkEndDate THEN chunkEndDate ELSE smallEnd
             r        == FetchTimeDoctorWorklogs(smallStart, finalEnd, subs[n])
         IN (IF r.raised THEN <<>> ELSE r.entries)
              \o SmallChunks(smallStart + Days(SMALL_CHUNK_DAYS), chunkEndDate, subs, n + 1)
    ELSE <<>>

\* the requests of that retry, for the request log
RECURSIVE SmallRequests(_, _, _, _)
SmallRequests(smallStart, chunkEndDate, subs, n) ==
  IF smallStart < chunkEndDate
    THEN LET smallEnd == smallStart + Days(SMALL_CHUNK_DAYS)
             finalEnd == IF smallEnd > chunkEndDate THEN chunkEndDate ELSE smallEnd
         IN <<[from |-> smallStart, to |-> finalEnd, outcome |-> subs[n],
               primary |-> FALSE]>>
              \o SmallRequests(smallStart + Days(SMALL_CHUNK_DAYS), chunkEndDate, subs, n + 1)
    ELSE <<>>

\* const totalDays = Math.ceil((endDate - startDate) / day)
TotalDays == CeilDiv(tdEnd - tdStart, TicksPerDay)

\* const chunks = Math.ceil(totalDays / CHUNK_DAYS)
Chunks == CeilDiv(TotalDays, CHUNK_DAYS)

InitTD ==
  /\ ExtIdle
  /\ PassIdle
  /\ ConcIdle
  /\ GhostIdle
  /\ now = 0 /\ source = <<>> /\ cards = <<>> /\ history = <<>>
  /\ tdpc = "idle"
  /\ tdHasUsers \in BOOLEAN
  /\ tdStart = 0
  /\ tdEnd \in 1..Days(MaxDays)
  /\ tdI = 0
  /\ currentStart = 0
  /\ allWorklogs = <<>>
  /\ tdStored = {}
  /\ tdRequests = <<>>

\* syncTimeDoctorWorklogs is called: the user ids are read, and without any
\* the function returns at once
TDStart ==
  /\ tdpc = "idle"
  /\ tdpc' = IF ~tdHasUsers THEN "done" ELSE IF Chunks > 0 THEN "loop" ELSE "persist"
  /\ currentStart' = tdStart
  /\ tdI' = 0
  /\ allWorklogs' = <<>>
  /\ UNCHANGED <<tdHasUsers, tdStart, tdEnd, tdStored, tdRequests, histVars, passVars,
                 concVars, extVars>>

\* a chunk loop that gives up the remaining windows when a request fails
FetchChunkAbort(o) ==
  /\ tdpc = "loop"
  /\ LET chunkEnd     == currentStart + Days(CHUNK_DAYS)
         chunkEndDate == IF chunkEnd > tdEnd THEN tdEnd ELSE chunkEnd
         r            == FetchTry(currentStart, chunkEndDate, o)
     IN /\ allWorklogs' = allWorklogs \o r.entries
        /\ tdRequests' = Append(tdRequests, [from |-> currentStart, to |-> chunkEndDate,
                                              outcome |-> o, primary |-> TRUE])
        /\ currentStart' = chunkEndDate + Days(1)
        /\ tdpc' = IF r.raised \/ ~(tdI + 1 < Chunks) THEN "persist" ELSE "loop"
  /\ tdI' = tdI + 1
  /\ UNCHANGED <<tdHasUsers, tdStart, tdEnd, tdStored, histVars, passVars, concVars, extVars>>

\* one iteration of the chunk loop: the request of the window, the 3-day retry
\* when the request raised a range error, and the move to the next window
FetchChunk(o) ==
  /\ tdpc = "loop"
  /\ LET chunkEnd     == currentStart + Days(CHUNK_DAYS)
         chunkEndDate == IF chunkEnd > tdEnd THEN tdEnd ELSE chunkEnd
         r            == FetchTimeDoctorWorklogs(currentStart, chunkEndDate, o)
         req          == [from |-> currentStart, to |-> chunkEndDate, outcome |-> o,
                          primary |-> TRUE]
     IN /\ IF ~r.raised
             THEN /\ allWorklogs' = allWorklogs \o r.entries
                  /\ tdRequests' = Append(tdRequests, req)
             ELSE IF r.range
               THEN \E subs \in [1..CHUNK_DAYS -> TDOutcomes] :
                      /\ allWorklogs' = allWorklogs
                           \o SmallChunks(currentStart, chunkEndDate, subs, 1)
                      /\ tdRequests' = Append(tdRequests, req)
                           \o SmallRequests(currentStart, chunkEndDate, subs, 1)
               ELSE /\ allWorklogs' = allWorklogs
                    /\ tdRequests' = Append(tdRequests, req)
        /\ currentStart' = chunkEndDate + Days(1)
  /\ tdI' = tdI + 1
  /\ tdpc' = IF tdI + 1 < Chunks THEN "loop" ELSE "persist"
  /\ UNCHANGED <<tdHasUsers, tdStart, tdEnd, tdStored, histVars, passVars, concVars, extVars>>

\* after the loop: nothing to do for an empty aggregate, else every worklog is
\* upserted into timedoctor_worklogs
TDPersist ==
  /\ tdpc = "persist"
  /\ tdStored' = tdStored \cup Range(allWorklogs)
  /\ tdpc' = "done"
  /\ UNCHANGED <<tdHasUsers, tdStart, tdEnd, tdI, currentStart, allWorklogs, tdRequests,
                 histVars, passVars, concVars, extVars>>

NextTD ==
  \/ TDStart
  \/ \E o \in TDOutcomes : FetchChunk(o)
  \/ TDPersist

SpecTD == InitTD /\ [][NextTD]_vars

\* the requests of the chunk loop itself, in order
PrimaryRequests == SelectSeq(tdRequests, LAMBDA r : r.primary)

\* the worklog sync is past its chunk loop
TDFetched == tdHasUsers /\ tdpc \in {"persist", "done"}

\* C10: a 7-day window answered with 'range too wide' is retried as 3-day
\* sub-windows, and when those succeed the aggregate holds every entry of
\* every window that was answered with entries or with 'range too wide'.
C10_RangeErrorRecovered ==
  (tdpc = "done" /\ tdHasUsers
     /\ \A k \in DOMAIN tdRequests : ~tdRequests[k].primary => tdRequests[k].outcome = "ok")
  => \A k \in DOMAIN tdRequests :
       (/\ tdRequests[k].primary
        /\ tdRequests[k].outcome \in {"ok", "range"}
        /\ tdRequests[k].outcome = "range" =>
             tdRequests[k].to - tdRequests[k].from = Days(CHUNK_DAYS)) =>
         /\ Range(EntriesIn(tdRequests[k].from, tdRequests[k].to)) \subseteq Range(allWorklogs)
         /\ tdRequests[k].outcome = "range" =>
              \E j \in DOMAIN tdRequests :
                /\ ~tdRequests[j].primary
                /\ tdRequests[j].from = tdRequests[k].from

\* C11: the windows requested by the chunk loop span at most 7 days, lie
\* inside [startDate, endDate] with start <= end, and cover every instant of
\* the interval.
C11_WindowsCover ==
  TDFetched =>
    /\ \A k \in DOMAIN PrimaryRequests :
         /\ PrimaryRequests[k].from <= PrimaryRequests[k].to
         /\ tdStart <= PrimaryRequests[k].from
         /\ PrimaryRequests[k].to <= tdEnd
         /\ PrimaryRequests[k].to - PrimaryRequests[k].from <= Days(CHUNK_DAYS)
    /\ \A t \in tdStart..tdEnd :
         \E k \in DOMAIN PrimaryRequests :
           PrimaryRequests[k].from <= t /\ t <= PrimaryRequests[k].to

\* C12: a failed request does not end the chunk loop: every window of the
\* loop is requested, a day after the end of the one before it whatever failed,
\* and the entries of every answered request are in the aggregate and, once
\* the sync is done, in timedoctor_worklogs.
C12_FailedWindowSkipped ==
  TDFetched =>
    /\ Len(PrimaryRequests) = Chunks
    /\ \A k \in DOMAIN PrimaryRequests :
         PrimaryRequests[k].from =
           IF k = 1 THEN tdStart ELSE PrimaryRequests[k - 1].to + Days(1)
    /\ \A k \in DOMAIN tdRequests :
         tdRequests[k].outcome = "ok" =>
           /\ Range(EntriesIn(tdRequests[k].from, tdRequests[k].to)) \subseteq Range(allWorklogs)
           /\ tdpc = "done" =>
                Range(EntriesIn(tdRequests[k].from, tdRequests[k].to)) \subseteq tdStored

\* C12 witness: the first window failed, the second was answered with entries
\* and these are stored
C12_Witness ==
  /\ tdpc = "done" /\ tdHasUsers
  /\ Len(PrimaryRequests) >= 2
  /\ PrimaryRequests[1].outcome = "error"
  /\ PrimaryRequests[2].outcome = "ok"
  /\ PrimaryRequests[2].from < PrimaryRequests[2].to
  /\ PrimaryRequests[2].from \in tdStored

(***************************************************************************)
(* SpecFetch: fetchAllPages, one databases.query request per step          *)
(***************************************************************************)
\* notion.databases.query({ start_cursor, page_size }) against a database of
\* fTotal matching items: the items from the cursor on, at most page_size
QueryDatabase(c, pageSize) ==
  LET first == IF c = 0 THEN 1 ELSE c
      last  == Min(first + pageSize - 1, fTotal)
  IN [ results     |-> [k \in 1..(last - first + 1) |-> first + k - 1],
       has_more    |-> last < fTotal,
       next_cursor |-> IF last < fTotal THEN last + 1 ELSE 0 ]

\* const remainingLimit = limit ? limit - allPages.length : undefined (0)
RemainingLimit == IF limit # 0 THEN limit - Len(allPages) ELSE 0

\* a request that always asks for the largest page
PageSizeFull == NOTION_PAGE_SIZE

\* const pageSize = remainingLimit && remainingLimit < 100 ? remainingLimit : 100
PageSize == IF RemainingLimit # 0 /\ RemainingLimit < NOTION_PAGE_SIZE
              THEN RemainingLimit ELSE NOTION_PAGE_SIZE

\* what is pushed to allPages: response.results.slice(0, remainingLimit) under a
\* limit, else response.results
TakeResults(response) ==
  IF limit # 0 /\ RemainingLimit # 0
    THEN SubSeq(response.results, 1, Min(RemainingLimit, Len(response.results)))
    ELSE response.results

NextCursorNone(response) == 0

\* a cursor that is kept when the response has none
NextCursorKept(response) == IF response.next_cursor # 0 THEN response.next_cursor ELSE 1

\* cursor = response.has_more && response.next_cursor ? response.next_cursor : undefined
NextCursor(response) ==
  IF response.has_more /\ response.next_cursor # 0 THEN response.next_cursor ELSE 0

InitFetch ==
  /\ Ext2Idle
  /\ PassIdle
  /\ ConcIdle
  /\ TDIdle
  /\ GhostIdle
  /\ now = 0 /\ source = <<>> /\ cards = <<>> /\ history = <<>>
  /\ WLIdle
  /\ MatchIdle
  /\ ProjIdle
  /\ fpc = "idle"
  /\ fTotal \in 0..MaxItems
  /\ limit \in 0..MaxLimit
  /\ allPages = <<>>
  /\ cursor = 0
  /\ fRequests = <<>>

\* fetchAllPages is called
FetchStart ==
  /\ fpc = "idle"
  /\ fpc' = "loop"
  /\ allPages' = <<>>
  /\ cursor' = 0
  /\ UNCHANGED <<fTotal, limit, fRequests, histVars, passVars, concVars, tdVars, wlVars, matchVars, projVars, ext2Vars>>

\* one iteration of the do-while loop: the request, which may raise, the push,
\* the new cursor, the break on the limit, the delay of 400 ms taken if (cursor)
\* (waited) and the loop condition
FetchPage(ok) ==
  /\ fpc = "loop"
  /\ IF ~ok
       THEN /\ fpc' = "raised"
            /\ UNCHANGED <<allPages, cursor>>
       ELSE LET response == QueryDatabase(cursor, PageSize)
            IN /\ allPages' = allPages \o TakeResults(response)
               /\ cursor' = NextCursor(response)
               /\ fpc' = IF limit # 0 /\ Len(allPages') >= limit THEN "returned"
                         ELSE IF cursor' # 0 /\ (limit = 0 \/ Len(allPages') < limit)
                           THEN "loop" ELSE "returned"
  /\ fRequests' = Append(fRequests,
       [start_cursor |-> cursor, page_size |-> PageSize,
        held |-> Len(allPages), ok |-> ok,
        waited |-> ok /\ ~(limit # 0 /\ Len(allPages') >= limit) /\ cursor' # 0])
  /\ UNCHANGED <<fTotal, limit, histVars, passVars, concVars, tdVars, wlVars, matchVars, projVars, ext2Vars>>

NextFetch ==
  \/ FetchStart
  \/ \E ok \in BOOLEAN : FetchPage(ok)

SpecFetch == InitFetch /\ [][NextFetch]_vars

\* the first n items of the database, in source order
FirstItems(n) == [k \in 1..n |-> k]

\* C13: fetchAllPages returns all items in source order without a limit, the
\* first min(limit, total) items under a limit, and issues no request once it
\* holds limit items.
C13_ReturnsFirstItems ==
  /\ fpc = "returned" =>
       allPages = FirstItems(IF limit = 0 THEN fTotal ELSE Min(limit, fTotal))
  /\ \A k \in DOMAIN fRequests : limit # 0 => fRequests[k].held < limit

\* C13 witness: 5 items under a limit of 3: two requests, the second cut to
\* the one item that was missing
C13_Witness ==
  /\ fpc = "returned" /\ fTotal = 5 /\ limit = 3
  /\ allPages = <<1, 2, 3>>
  /\ Len(fRequests) = 2 /\ fRequests[2].page_size = 1

\* C14: a pass whose fetch raised has attempted no page, has status 'failed'
\* and rethrows the fetch error to its caller (checked under SpecPass; the
\* fetch itself stops at the first request that raises, see FetchPage).
C14_FetchRaiseFailsPass ==
  (PassEnded /\ fetchRaised) =>
    /\ \A q \in 1..MaxPages : attempts[q] = 0
    /\ pageFailed = {}
    /\ syncLog.status = "failed"
    /\ thrown = "fetch"

\* the running pass attempted an upsert; an upsert of the running pass raised
UpsertsTried == upserts.done \/ upserts.raised

UpsertsRaised == upserts.raised

\* C15: a pass in which every attempted upsert raised ends with status
\* 'failed'; a pass in which only some raised counts each as a failed page,
\* goes through all pages and ends 'partial'.
C15_AllUpsertsRaise ==
  /\ (PassEnded /\ LoopDone /\ UpsertsTried /\ ~upserts.done)
       => syncLog.status = "failed"
  /\ (pc = "returned" /\ UpsertsRaised /\ upserts.done)
       => /\ result.status = "partial"
          /\ result.records_failed >= 1
          /\ \A q \in 1..Len(filteredPages) : attempts[q] = 1

Worklogs == [userId : {"u1"}, projectId : {"p1", "p2"}, start : {NOTIME, 3, 30},
             time : {0, 3600}]

\* startDate arguments of the sync (the daily sync passes now - 30 days)
StartDates == {0, 24}

\* if (!worklog.userId || !worklog.projectId || !worklog.time || worklog.time <= 0) continue
ValidWorklog(w) == Truthy(w.userId) /\ Truthy(w.projectId) /\ w.time > 0

\* worklogDate: with a start, 05:00 UTC of the day the start falls on five hours
\* west of UTC; without, 00:00 UTC of the day of startDate
WorklogDate(w, startDate) ==
  IF w.start # NOTIME THEN ((w.start - 5) \div 24) * 24 + 5
  ELSE (startDate \div 24) * 24

\* the filter of the upsert: period_start: periodStartDate || worklogDate
WorklogFilter(w, startDate) ==
  [ time_doctor_user_id    |-> w.userId,
    time_doctor_project_id |-> w.projectId,
    date                   |-> WorklogDate(w, startDate),
    period_start           |-> IF w.start # NOTIME THEN w.start
                               ELSE WorklogDate(w, startDate) ]

\* the $set of the upsert on the record doc, for the key fields: period_start:
\* periodStartDate || undefined, an undefined value being left out or written
\* as null (NOTIME) as the store client is configured
WorklogSet(doc, w) ==
  IF w.start # NOTIME THEN [doc EXCEPT !.period_start = w.start]
  ELSE IF wlIgnoreUndefined THEN doc
  ELSE [doc EXCEPT !.period_start = NOTIME]

\* updateOne(filter, { $set, $setOnInsert }, { upsert: true }) on the collection
UpsertWorklog(docs, w, startDate) ==
  LET f == WorklogFilter(w, startDate)
      M == {i \in DOMAIN docs : docs[i] = f}
  IN IF M = {} THEN Append(docs, WorklogSet(f, w))
     ELSE LET i == CHOOSE i \in M : \A j \in M : i <= j
          IN [docs EXCEPT ![i] = WorklogSet(docs[i], w)]

InitWL ==
  /\ Ext2Idle
  /\ PassIdle
  /\ ConcIdle
  /\ TDIdle
  /\ GhostIdle
  /\ FetchIdle
  /\ MatchIdle
  /\ ProjIdle
  /\ now = 0 /\ source = <<>> /\ cards = <<>> /\ history = <<>>
  /\ wlDocs = <<>>
  /\ wlIgnoreUndefined \in BOOLEAN
  /\ wlSeen = {}
  /\ wlLast = NULL

\* one turn of the loop over the worklogs of a sync called with startDate
PersistWorklog(w, startDate) ==
  /\ Cardinality(wlSeen) < MaxWrites \/ w \in wlSeen
  /\ Len(wlDocs) < MaxWrites
  /\ wlDocs' = IF ValidWorklog(w) THEN UpsertWorklog(wlDocs, w, startDate) ELSE wlDocs
  /\ wlSeen' = wlSeen \cup {w}
  /\ wlLast' = w
  /\ UNCHANGED <<wlIgnoreUndefined, histVars, passVars, concVars, tdVars, fetchVars, matchVars, projVars, ext2Vars>>

NextWL == \E w \in Worklogs, startDate \in StartDates : PersistWorklog(w, startDate)

SpecWL == InitWL /\ [][NextWL]_vars

\* the key of a stored time entry
WorklogKey(doc) == <<doc.time_doctor_user_id, doc.time_doctor_project_id, doc.date,
                     doc.period_start>>

\* C17: the store holds at most one time entry per key (user, project, date,
\* period start), and persisting a worklog that was persisted before, with or
\* without a start, does not add a time entry.
C17_OneEntryPerKey ==
  /\ [](\A i, j \in DOMAIN wlDocs : WorklogKey(wlDocs[i]) = WorklogKey(wlDocs[j]) => i = j)
  /\ [][wlLast' \in wlSeen => Len(wlDocs') = Len(wlDocs)]_vars

(***************************************************************************)
(* SpecMatchUsers: matchTimeDoctorUsers for one Time Doctor user           *)
(***************************************************************************)
\* emails and names as they are stored and as Time Doctor returns them
MatchStrings == {"ann", " ANN", "bob", "Bob "}

\* s.toLowerCase().trim()
Normalize(s) == CASE s = " ANN" -> "ann" [] s = "Bob " -> "bob" [] OTHER -> s

\* teamMemberByEmail.get(key) / teamMemberByName.get(key): the maps are filled
\* in the order of teamMembers, a later member replacing an earlier one with the
\* same key; position of the member, 0 if the map has no such key
MemberByField(members, field, key) ==
  LET M == {i \in DOMAIN members :
              Truthy(members[i][field]) /\ Normalize(members[i][field]) = key}
  IN IF M = {} THEN 0 ELSE CHOOSE i \in M : \A j \in M : j <= i

\* a matching that looks at the name before the email
MatchUserNameFirst(user, members) ==
  LET byName  == IF Truthy(user.name)
                   THEN MemberByField(members, "name", Normalize(user.name)) ELSE 0
      byEmail == IF Truthy(user.email)
                   THEN MemberByField(members, "email", Normalize(user.email)) ELSE 0
  IN IF byName # 0 THEN members[byName].notion_id
     ELSE IF byEmail # 0 THEN members[byEmail].notion_id
     ELSE NULL

\* the body of tdUsers.forEach: the entry of matchMap for the user, NULL if none
MatchUser(user, members) ==
  LET byEmail == IF Truthy(user.email)
                   THEN MemberByField(members, "email", Normalize(user.email)) ELSE 0
      byName  == IF Truthy(user.name)
                   THEN MemberByField(members, "name", Normalize(user.name)) ELSE 0
  IN IF byEmail # 0 /\ Truthy(members[byEmail].notion_id)
       THEN members[byEmail].notion_id
     ELSE IF byName # 0 /\ Truthy(members[byName].notion_id)
       THEN members[byName].notion_id
     ELSE NULL

\* team members as syncTeamMembers stores them: notion_id is the page id
TeamMembers ==
  {<<m1, m2>> : m1 \in [notion_id : {"m1"}, email : MatchStrings \cup {NULL},
                        name : MatchStrings \cup {NULL}],
                m2 \in [notion_id : {"m2"}, email : MatchStrings \cup {NULL},
                        name : MatchStrings \cup {NULL}]}

InitMatchUsers ==
  /\ Ext2Idle
  /\ PassIdle
  /\ ConcIdle
  /\ TDIdle
  /\ GhostIdle
  /\ FetchIdle
  /\ WLIdle
  /\ ProjIdle
  /\ now = 0 /\ source = <<>> /\ cards = <<>> /\ history = <<>>
  /\ mpc = "idle"
  /\ teamMembers \in TeamMembers
  /\ tdUser \in [id : {"t1"}, email : MatchStrings \cup {NULL},
                 name : MatchStrings \cup {NULL}]
  /\ userMatch = NULL

\* matchTimeDoctorUsers([tdUser], teamMembers)
MatchTimeDoctorUsers ==
  /\ mpc = "idle"
  /\ mpc' = "done"
  /\ userMatch' = MatchUser(tdUser, teamMembers)
  /\ UNCHANGED <<teamMembers, tdUser, histVars, passVars, concVars, tdVars, fetchVars,
                 wlVars, projVars, ext2Vars>>

NextMatchUsers == MatchTimeDoctorUsers

SpecMatchUsers == InitMatchUsers /\ [][NextMatchUsers]_vars

\* the members whose email (name) equals the user's, case and blanks aside
MembersMatching(field) ==
  {i \in DOMAIN teamMembers :
     /\ Truthy(tdUser[field]) /\ Truthy(teamMembers[i][field])
     /\ Normalize(teamMembers[i][field]) = Normalize(tdUser[field])}

\* C18: the user is mapped to one member at most: to a member with the same
\* email when there is one, else to a member with the same name when there is
\* one, else to none.
C18_EmailBeforeName ==
  mpc = "done" =>
    IF MembersMatching("email") # {}
      THEN userMatch \in {teamMembers[i].notion_id : i \in MembersMatching("email")}
    ELSE IF MembersMatching("name") # {}
      THEN userMatch \in {teamMembers[i].notion_id : i \in MembersMatching("name")}
    ELSE userMatch = NULL

\* C18 witness: the email is that of the first member (in another case), the
\* name is that of the second only, and the user is mapped to the first
C18_Witness ==
  /\ mpc = "done"
  /\ MembersMatching("email") = {1}
  /\ MembersMatching("name") = {2}
  /\ tdUser.email # teamMembers[1].email
  /\ userMatch = "m1"

(***************************************************************************)
(* SpecSyncProjects: syncTimeDoctorProjects for one Time Doctor project    *)
(* (matchTimeDoctorProjects and the client lookup by name). Names are      *)
(* tuples of characters; <<>> is the absent or empty name.                 *)
(***************************************************************************)
\* the length a client name must exceed to be tried in the partial match
MIN_NAME_LENGTH == 3

\* String.prototype.toLowerCase over the characters the names use
ToLowerCase(s) == [i \in DOMAIN s |-> IF s[i] = "A" THEN "a" ELSE s[i]]

RECURSIVE TrimStart(_)
TrimStart(s) == IF s # <<>> /\ Head(s) = " " THEN TrimStart(Tail(s)) ELSE s

RECURSIVE TrimEnd(_)
TrimEnd(s) ==
  IF s # <<>> /\ s[Len(s)] = " " THEN TrimEnd(SubSeq(s, 1, Len(s) - 1)) ELSE s

\* String.prototype.trim
Trim(s) == TrimEnd(TrimStart(s))

\* s.includes(t)
Includes(s, t) ==
  \E i \in 1..(Len(s) - Len(t) + 1) : SubSeq(s, i, i + Len(t) - 1) = t

\* the ids of the Time Doctor projects fetched (tdProjectMap)
TdProjectIds == {"p1"}

\* the Time Doctor ids a card may carry in its metadata
CardTdIds == {NULL, "p1", "p9"}

ClientIds == {"c1", "c2"}

\* 'ac', 'acm', ' Acme', 'acme co', 'internal'
ProjectNames ==
  {<<>>, <<"a", "c">>, <<"a", "c", "m">>, <<" ", "A", "c", "m", "e">>,
   <<"a", "c", "m", "e", " ", "c", "o">>,
   <<"i", "n", "t", "e", "r", "n", "a", "l">>}

\* 'acm', 'acme', 'Acme'
ClientNames ==
  {<<>>, <<"a", "c", "m">>, <<"a", "c", "m", "e">>, <<"A", "c", "m", "e">>}

\* the names that make a project internal: 'ecomexperts', 'internal'
InternalWords ==
  {<<"e", "c", "o", "m", "e", "x", "p", "e", "r", "t", "s">>,
   <<"i", "n", "t", "e", "r", "n", "a", "l">>}

IsInternal(name) == \E w \in InternalWords : Includes(ToLowerCase(name), w)

\* the body of cards.forEach for the project with id p: m is matchMap.get(p)
\* before the card, NoMatch if there is none
MatchCard(m, card, p) ==
  LET entry == [cardId |-> card.notion_id, clientId |-> card.client_id]
      m1 == IF Truthy(card.task_id) /\ card.task_id \in TdProjectIds
               /\ card.task_id = p /\ m = NoMatch
              THEN entry ELSE m
  IN IF Truthy(card.client_project_id) /\ card.client_project_id \in TdProjectIds
        /\ card.client_project_id = p /\ (m1 = NoMatch \/ ~Truthy(m1.clientId))
       THEN entry ELSE m1

RECURSIVE MatchCards(_, _, _)
\* matchTimeDoctorProjects: matchMap.get(p) after cards.forEach over cs
MatchCards(cs, p, m) ==
  IF cs = <<>> THEN m ELSE MatchCards(Tail(cs), p, MatchCard(m, Head(cs), p))

\* Map.set(k, v) on a map kept as the sequence of its entries in insertion order
MapSet(m, k, v) ==
  IF \E i \in DOMAIN m : m[i][1] = k
    THEN [i \in DOMAIN m |-> IF m[i][1] = k THEN <<k, v>> ELSE m[i]]
    ELSE Append(m, <<k, v>>)

\* the aggregation over cards: per client id with a card that has a client
\* name, the name of the first such card; the groups come in the order order
CardsByClient(cs, order) ==
  LET Named(c) == {i \in DOMAIN cs : cs[i].client_id = c /\ cs[i].client_name # <<>>}
      item(c) == [id |-> c,
                  client_name |-> cs[CHOOSE i \in Named(c) : \A j \in Named(c) : i <= j].client_name]
      present == SelectSeq(order, LAMBDA c : Named(c) # {})
  IN [k \in DOMAIN present |-> item(present[k])]

RECURSIVE ClientNameMap(_, _)
\* clientNameMap after cardsByClient.forEach
ClientNameMap(items, m) ==
  IF items = <<>> THEN m
  ELSE LET it == Head(items)
       IN ClientNameMap(Tail(items),
            MapSet(MapSet(m, Trim(ToLowerCase(it.client_name)), it.id),
                   it.client_name, it.id))

\* the first entry of clientNameMap the partial match accepts, 0 if none
PartialMatch(cnm, projectNameLower) ==
  LET M == {i \in DOMAIN cnm :
              /\ Len(cnm[i][1]) > MIN_NAME_LENGTH
              /\ \/ Includes(projectNameLower, cnm[i][1])
                 \/ Includes(cnm[i][1], projectNameLower)}
  IN IF M = {} THEN 0 ELSE CHOOSE i \in M : \A j \in M : i <= j

\* the body of the loop over tdProjects up to the upsert:
\* [clientId, via] for the project given its entry of projectMatchMap
ResolveClient(project, match, cnm) ==
  LET projectNameLower == Trim(ToLowerCase(project.name))
      exact   == {i \in DOMAIN cnm : cnm[i][1] = projectNameLower}
      partial == PartialMatch(cnm, projectNameLower)
  IN IF Truthy(match.clientId)
       THEN [clientId |-> match.clientId, via |-> "card"]
     ELSE IF IsInternal(project.name) \/ project.name = <<>>
       THEN [clientId |-> NULL, via |-> "none"]
     ELSE IF exact # {}
       THEN [clientId |-> cnm[CHOOSE i \in exact : TRUE][2], via |-> "exact"]
     ELSE IF partial # 0
       THEN [clientId |-> cnm[partial][2], via |-> "partial"]
     ELSE [clientId |-> NULL, via |-> "none"]

\* a card as the store holds it, with the fields the matching reads
MatchCardDocs(id) ==
  [notion_id : {id}, client_id : ClientIds \cup {NULL}, client_name : ClientNames,
   task_id : CardTdIds, client_project_id : CardTdIds]

InitSyncProjects ==
  /\ Ext2Idle
  /\ PassIdle
  /\ ConcIdle
  /\ TDIdle
  /\ GhostIdle
  /\ FetchIdle
  /\ WLIdle
  /\ MatchIdle
  /\ now = 0 /\ source = <<>> /\ cards = <<>> /\ history = <<>>
  /\ spc = "idle"
  /\ tdProject \in [id : TdProjectIds, name : ProjectNames]
  /\ matchCards \in {<<a, b>> : a \in MatchCardDocs("k1"), b \in MatchCardDocs("k2")}
  /\ clientOrder \in {<<"c1", "c2">>, <<"c2", "c1">>}
  /\ projectMatch = NoMatch
  /\ notionClientId = NULL
  /\ clientVia = "none"

\* syncTimeDoctorProjects for the project tdProject
SyncTimeDoctorProjects ==
  /\ spc = "idle"
  /\ spc' = "done"
  /\ LET match == MatchCards(matchCards, tdProject.id, NoMatch)
         cnm   == ClientNameMap(CardsByClient(matchCards, clientOrder), <<>>)
         res   == ResolveClient(tdProject, match, cnm)
     IN /\ projectMatch' = match
        /\ notionClientId' = res.clientId
        /\ clientVia' = res.via
  /\ UNCHANGED <<tdProject, matchCards, clientOrder, histVars, passVars, concVars,
                 tdVars, fetchVars, wlVars, matchVars, ext2Vars>>

NextSyncProjects == SyncTimeDoctorProjects

SpecSyncProjects == InitSyncProjects /\ [][NextSyncProjects]_vars

\* the cards that carry the project's id in the task-id slot
TaskIdCards == {i \in DOMAIN matchCards : matchCards[i].task_id = tdProject.id}

\* the cards that carry the project's id in the client-level slot
ClientLevelCards ==
  {i \in DOMAIN matchCards : matchCards[i].client_project_id = tdProject.id}

\* C19: a project some card matches by task id is matched to such a card: a
\* card that carries the id in the client-level slot only is matched to it
\* when no card matches by task id.
C19_TaskIdFirst ==
  spc = "done" =>
    IF TaskIdCards # {}
      THEN projectMatch.cardId \in {matchCards[i].notion_id : i \in TaskIdCards}
    ELSE IF ClientLevelCards # {}
      THEN projectMatch.cardId \in {matchCards[i].notion_id : i \in ClientLevelCards}
    ELSE projectMatch = NoMatch

\* C20: a project whose name has MIN_NAME_LENGTH characters or fewer is never
\* given a client by the partial (substring) match.
C20_ShortNameNoPartialMatch ==
  spc = "done" /\ Len(tdProject.name) <= MIN_NAME_LENGTH => clientVia # "partial"

(***************************************************************************)
(* SpecMeta: the metadata map of transformProjectPage and                  *)
(* transformClientPage, and its replacement by the upsert. Followed are a  *)
(* key set before the generic loop (projected_dev_hours), a key set after  *)
(* it (type), and properties whose names normalise to those keys.          *)
(***************************************************************************)
\* normalizePropertyName over the property names of the model
NormalizePropertyName(name) ==
  CASE name = "Type" -> "type"
    [] name = "Type?" -> "type"
    [] name = "Projected Dev Hours" -> "projected_dev_hours"
    [] name = "Projected Dev-Hours" -> "projected_dev_hours"
    [] name = "Notes" -> "notes"
    [] name = "Archive" -> "archive"

\* excludedTypes
ExcludedTypes == {"button", "unique_id", "created_by", "last_edited_by"}

\* a value that is neither null nor undefined but falsy (0, '')
JsTruthy(v) == v \notin {NULL, "zero"}

\* extractProperty(page, id, type, name) for a property of the declared type:
\* page.properties is keyed by name
ExtractProperty(page, name) ==
  LET P == {i \in DOMAIN page : page[i].name = name}
  IN IF P = {} THEN NULL ELSE page[CHOOSE i \in P : TRUE].value

\* a generic loop that stores every extracted value
GenericStepOverwrite(md, prop) ==
  LET cleanFieldName == NormalizePropertyName(prop.name)
  IN IF prop.type \in ExcludedTypes THEN md
     ELSE IF prop.value # NULL THEN [md EXCEPT ![cleanFieldName] = prop.value]
     ELSE md

\* the body of the loop over Object.entries(page.properties)
GenericStep(md, prop) ==
  LET cleanFieldName == NormalizePropertyName(prop.name)
  IN IF prop.type \in ExcludedTypes THEN md
     ELSE IF md[cleanFieldName] # NULL THEN md
     ELSE IF prop.value # NULL THEN [md EXCEPT ![cleanFieldName] = prop.value]
     ELSE md

RECURSIVE GenericLoop(_, _)
GenericLoop(md, props) ==
  IF props = <<>> THEN md ELSE GenericLoop(GenericStep(md, Head(props)), Tail(props))

\* transformProjectPage(page).metadata
ProjectMetadata(page) ==
  LET projectedDevHours == ExtractProperty(page, "Projected Dev Hours")
      type    == ExtractProperty(page, "Type")
      before  == IF JsTruthy(projectedDevHours)
                   THEN [NoMeta EXCEPT !["projected_dev_hours"] = projectedDevHours]
                   ELSE NoMeta
      generic == GenericLoop(before, page)
  IN IF JsTruthy(type) THEN [generic EXCEPT !["type"] = type] ELSE generic

\* transformClientPage(page).metadata
ClientMetadata(page) ==
  LET clientType == ExtractProperty(page, "Type")
      generic    == GenericLoop(NoMeta, page)
  IN IF JsTruthy(clientType) THEN [generic EXCEPT !["type"] = clientType] ELSE generic

\* an upsert that keeps the stored keys the new snapshot lacks
MergeMetadata(stored, md) ==
  [k \in MetaKeys |-> IF md[k] # NULL THEN md[k] ELSE stored[k]]

\* updateOne({notion_id}, {$set: card}, {upsert: true}) on the metadata field
SetMetadata(stored, md) == md

\* the property name with the values it may have, or no such property
OptionalProperty(name, type, values) ==
  {<<>>} \cup {<<[name |-> name, type |-> type, value |-> v]>> : v \in values}

\* the pages: any subset of the six properties, in this order
MetaPages ==
  {a \o b \o c \o d \o e \o f :
     a \in OptionalProperty("Type", "select", {NULL, "a", "b"}),
     b \in OptionalProperty("Type?", "rich_text", {"c"}),
     c \in OptionalProperty("Projected Dev Hours", "rollup", {"zero", "a"}),
     d \in OptionalProperty("Projected Dev-Hours", "number", {"b"}),
     e \in OptionalProperty("Notes", "rich_text", {"a"}),
     f \in OptionalProperty("Archive", "button", {"x"})}

InitMeta ==
  /\ PassIdle
  /\ ConcIdle
  /\ TDIdle
  /\ GhostIdle
  /\ Ext1Idle
  /\ exceptMetaIdle
  /\ now = 0 /\ source = <<>> /\ cards = <<>> /\ history = <<>>
  /\ metaPc = "first"
  /\ metaPage \in MetaPages
  /\ cardMeta = NoMeta
  /\ prevMeta = NoMeta
  /\ clientMeta = NoMeta

\* the page is a project: transformProjectPage and the upsert of the card
SyncCardMeta ==
  /\ metaPc \in {"first", "edited"}
  /\ metaPc' = IF metaPc = "first" THEN "synced" ELSE "resynced"
  /\ cardMeta' = SetMetadata(cardMeta, ProjectMetadata(metaPage))
  /\ prevMeta' = cardMeta
  /\ UNCHANGED <<metaPage, clientMeta, coreVars, ext1Vars, exceptMeta>>

\* the page is a client: transformClientPage and the upsert of the client
SyncClientMeta ==
  /\ metaPc = "first"
  /\ metaPc' = "client"
  /\ clientMeta' = SetMetadata(clientMeta, ClientMetadata(metaPage))
  /\ UNCHANGED <<metaPage, cardMeta, prevMeta, coreVars, ext1Vars, exceptMeta>>

\* the page is edited in Notion after its first sync
EditMetaPage ==
  /\ metaPc = "synced"
  /\ metaPc' = "edited"
  /\ metaPage' \in MetaPages
  /\ UNCHANGED <<cardMeta, prevMeta, clientMeta, coreVars, ext1Vars, exceptMeta>>

NextMeta == SyncCardMeta \/ SyncClientMeta \/ EditMetaPage

SpecMeta == InitMeta /\ [][NextMeta]_vars

\* the metadata stored for the page just synced
SyncedMeta == IF metaPc = "client" THEN clientMeta ELSE cardMeta

C22_MetadataReplaced ==
  metaPc \in {"synced", "resynced"} => cardMeta = ProjectMetadata(metaPage)

\* C22 witness: the second upsert has dropped a key that the first had stored
C22_Witness ==
  /\ metaPc = "resynced"
  /\ prevMeta["notes"] = "a" /\ cardMeta["notes"] = NULL
  /\ prevMeta["type"] = "a" /\ cardMeta["type"] = "b"

\* C23: within a pass records_processed and records_failed never decrease, a
\* page attempt adds one to exactly one of them, no other step changes them,
\* and once the record of the pass is written neither the counters of the
\* pass nor the records written change.
C23_CountersMonotone ==
  [][/\ passes' = passes =>
          /\ syncLog'.records_processed >= syncLog.records_processed
          /\ syncLog'.records_failed >= syncLog.records_failed
          /\ IF attempts' # attempts
               THEN \/ /\ syncLog'.records_processed = syncLog.records_processed + 1
                       /\ syncLog'.records_failed = syncLog.records_failed
                    \/ /\ syncLog'.records_processed = syncLog.records_processed
                       /\ syncLog'.records_failed = syncLog.records_failed + 1
               ELSE /\ syncLog'.records_processed = syncLog.records_processed
                    /\ syncLog'.records_failed = syncLog.records_failed
     /\ \A i \in DOMAIN syncLogs :
          /\ i \in DOMAIN syncLogs'
          /\ syncLogs'[i] = syncLogs[i]
     /\ Len(syncLogs') > Len(syncLogs) =>
          /\ syncLogs'[Len(syncLogs')].records_processed = syncLog.records_processed
          /\ syncLogs'[Len(syncLogs')].records_failed = syncLog.records_failed
    ]_vars

\* C23 witness: the record of a pass with a processed and a failed page is
\* written, with the counters the page loop left
C23_Witness ==
  /\ pc = "returned"
  /\ Len(syncLogs) = logBase + 1
  /\ syncLogs[Len(syncLogs)].records_processed = 2
  /\ syncLogs[Len(syncLogs)].records_failed = 1
  /\ syncLog.records_processed = 2 /\ syncLog.records_failed = 1

(***************************************************************************)
(* SpecRetired: the retired-client filter of syncProjects                  *)
(***************************************************************************)
\* the client pages of the Notion clients database
RcClientIds == {"c1", "c2"}

\* a filter that drops a page only when all its clients are retired
HasOnlyRetiredClients(client, retired) == client # {} /\ client \subseteq retired

\* client.some(cid => retiredClients.has(cid)), for the client relation of a page
HasRetiredClient(client, retired) == client \cap retired # {}

\* getRetiredClientsMap: [set, how]; storeOk: getDb and find did not raise,
\* notionOk: the fetch of the client pages did not raise
GetRetiredClientsMap(storeOk, notionOk) ==
  IF ~storeOk THEN [set |-> {}, how |-> "raised"]
  ELSE IF retiredInStore # {} THEN [set |-> retiredInStore, how |-> "store"]
  ELSE IF notionOk THEN [set |-> retiredInNotion, how |-> "notion"]
  ELSE [set |-> {}, how |-> "raised"]

\* fetchAllPages(PROJECTS_DB_ID, notionFilter): the positions of the pages whose
\* Client relation contains clientId, of all pages when there is no filter
FetchProjectPages ==
  SelectSeq([k \in DOMAIN projectPages |-> k],
            LAMBDA k : clientId = NULL \/ clientId \in projectPages[k])

\* filteredPages.filter(..)
FilterRetired(pages) ==
  IF clientId = NULL /\ retiredClients # {}
    THEN SelectSeq(pages, LAMBDA k : ~HasRetiredClient(projectPages[k], retiredClients))
    ELSE pages

InitRetired ==
  /\ PassIdle
  /\ ConcIdle
  /\ TDIdle
  /\ GhostIdle
  /\ Ext1Idle
  /\ exceptRetiredIdle
  /\ now = 0 /\ source = <<>> /\ cards = <<>> /\ history = <<>>
  /\ rcPc = "idle"
  /\ clientId \in RcClientIds \cup {NULL}
  /\ retiredInStore \in SUBSET RcClientIds
  /\ retiredInNotion \in SUBSET RcClientIds
  /\ rcLookup = "none"
  /\ retiredClients = {}
  /\ projectPages \in [1..2 -> SUBSET RcClientIds]
  /\ rcFiltered = <<>>
  /\ rcAttempted = {}

\* syncProjects(clientId) up to the fetch of the pages
RcStart(storeOk, notionOk) ==
  /\ rcPc = "idle"
  /\ rcPc' = "fetch"
  /\ IF clientId # NULL
       THEN UNCHANGED <<retiredClients, rcLookup>>
       ELSE LET r == GetRetiredClientsMap(storeOk, notionOk)
            IN retiredClients' = r.set /\ rcLookup' = r.how
  /\ UNCHANGED <<clientId, retiredInStore, retiredInNotion, projectPages, rcFiltered,
                 rcAttempted, coreVars, ext1Vars, exceptRetired>>

\* the pages are fetched and filtered
RcFetch ==
  /\ rcPc = "fetch"
  /\ rcFiltered' = FilterRetired(FetchProjectPages)
  /\ rcPc' = IF rcFiltered' = <<>> THEN "done" ELSE "loop"
  /\ UNCHANGED <<clientId, retiredInStore, retiredInNotion, rcLookup, retiredClients,
                 projectPages, rcAttempted, coreVars, ext1Vars, exceptRetired>>

\* the next page of filteredPages is transformed (and upserted unless a step raises)
RcProcessPage ==
  /\ rcPc = "loop"
  /\ LET k == rcFiltered[Cardinality(rcAttempted) + 1]
     IN rcAttempted' = rcAttempted \cup {k}
  /\ rcPc' = IF Cardinality(rcAttempted') = Len(rcFiltered) THEN "done" ELSE "loop"
  /\ UNCHANGED <<clientId, retiredInStore, retiredInNotion, rcLookup, retiredClients,
                 projectPages, rcFiltered, coreVars, ext1Vars, exceptRetired>>

NextRetired ==
  \/ \E storeOk, notionOk \in BOOLEAN : RcStart(storeOk, notionOk)
  \/ RcFetch
  \/ RcProcessPage

SpecRetired == InitRetired /\ [][NextRetired]_vars

\* the pages a pass scoped to clientId has to process
ScopedPages == {k \in DOMAIN projectPages : clientId \in projectPages[k]}

\* C24 as stated: a pass with no client scope transforms no page that
\* references a client flagged retired; a scoped pass processes all pages of
\* its client, retired or not.
C24_RetiredFiltered ==
  /\ clientId = NULL =>
       \A k \in rcAttempted : projectPages[k] \cap retiredInStore = {}
  /\ (clientId # NULL /\ rcPc = "done") => rcAttempted = ScopedPages

\* C24 amended: the same, for a pass whose lookup of the retired clients did
\* not raise.
C24_RetiredFilteredUnlessLookupRaised ==
  /\ (clientId = NULL /\ rcLookup # "raised") =>
       \A k \in rcAttempted : projectPages[k] \cap retiredInStore = {}
  /\ (clientId # NULL /\ rcPc = "done") => rcAttempted = ScopedPages

\* C24 witness: an unscoped pass has dropped the page of a retired client and
\* processed the other page
C24_Witness ==
  /\ clientId = NULL /\ rcPc = "done" /\ rcLookup = "store"
  /\ retiredInStore = {"c1"}
  /\ projectPages[1] = {"c1", "c2"} /\ projectPages[2] = {"c2"}
  /\ rcAttempted = {2}

(***************************************************************************)
(* SpecDaily: one request to the daily sync endpoint (handleDailySync) or  *)
(* to the Time Doctor sync endpoint. The entity-type syncs are taken by    *)
(* their outcome; what they call and write is kept as history.             *)
(***************************************************************************)
EntitySet == {EntityTypes[i] : i \in DOMAIN EntityTypes}

TDCollections == {"timedoctor_users", "timedoctor_projects", "timedoctor_worklogs"}

\* `Bearer ${syncSecret}`
Bearer(secret) == IF secret = "s" THEN "Bearer s" ELSE "Bearer"

\* a check that only rejects a request without Authorization header
UnauthorizedNoHeader(secret, header) == Truthy(secret) /\ header = NULL

\* syncSecret && authHeader !== `Bearer ${syncSecret}`
Unauthorized(secret, header) == Truthy(secret) /\ header # Bearer(secret)

\* a check of the token only
CredentialsMissingToken(creds) == ~Truthy(creds.apiToken)

\* !apiToken || !companyId
CredentialsMissing(creds) == ~Truthy(creds.apiToken) \/ ~Truthy(creds.companyId)

\* api_token || process.env.TIMEDOCTOR_API_TOKEN (the daily endpoint reads the
\* environment only, its bodyCreds are NoCreds)
EffectiveCreds ==
  [apiToken  |-> IF Truthy(bodyCreds.apiToken) THEN bodyCreds.apiToken ELSE envCreds.apiToken,
   companyId |-> IF Truthy(bodyCreds.companyId) THEN bodyCreds.companyId
                 ELSE envCreds.companyId]

\* how syncTimeDoctor ends: "ok", or the step that raised
TDSyncOutcomes == {"ok", "users", "projects", "worklogs"}

\* the collections syncTimeDoctor has written when it ends with o
TDWritten(o) ==
  CASE o = "ok" -> TDCollections
    [] o = "users" -> {}
    [] o = "projects" -> {"timedoctor_users"}
    [] o = "worklogs" -> {"timedoctor_users", "timedoctor_projects"}

CredValues == {[apiToken |-> t, companyId |-> c] : t \in {NULL, "t"}, c \in {NULL, "c"}}

InitDaily ==
  /\ PassIdle
  /\ ConcIdle
  /\ TDIdle
  /\ GhostIdle
  /\ Ext1Idle
  /\ exceptDailyIdle
  /\ now = 0 /\ source = <<>> /\ cards = <<>> /\ history = <<>>
  /\ dRoute \in {"daily", "timedoctor"}
  /\ syncSecret \in {NULL, "s"}
  /\ authHeader \in {NULL, "Bearer s", "Bearer x", "s"}
  /\ envCreds \in CredValues
  /\ bodyCreds \in IF dRoute = "daily" THEN {NoCreds} ELSE CredValues
  /\ dPc = "idle"
  /\ syncs = [e \in EntitySet |-> "none"]
  /\ errors = <<>>
  /\ dStatus = "none"
  /\ httpStatus = 0
  /\ passesRun = {}
  /\ fetched = {}
  /\ written = {}

\* handleDailySync: the authorization check
DailyAuthorize ==
  /\ dRoute = "daily" /\ dPc = "idle"
  /\ IF Unauthorized(syncSecret, authHeader)
       THEN httpStatus' = 401 /\ dPc' = "responded"
       ELSE httpStatus' = httpStatus /\ dPc' = EntityTypes[1]
  /\ UNCHANGED <<dRoute, syncSecret, authHeader, envCreds, bodyCreds, syncs, errors, dStatus,
                 passesRun, fetched, written, coreVars, ext1Vars, exceptDaily>>

\* syncTeamMembers (k = 1) or syncQITimeTrackerEntries (k = 2) and its try/catch:
\* the pass returns its log (status success or partial) or throws ("failed")
DailyEntity(k, o) ==
  /\ dRoute = "daily" /\ dPc = EntityTypes[k]
  /\ dPc' = EntityTypes[k + 1]
  /\ passesRun' = passesRun \cup {EntityTypes[k]}
  /\ fetched' = fetched \cup {"notion"}
  /\ written' = written \cup (IF o = "failed" THEN {"sync_logs"}
                              ELSE {EntityTypes[k], "sync_logs"})
  /\ syncs' = [syncs EXCEPT ![EntityTypes[k]] = IF o = "failed" THEN "error" ELSE o]
  /\ errors' = IF o = "failed" THEN Append(errors, EntityTypes[k]) ELSE errors
  /\ UNCHANGED <<dRoute, syncSecret, authHeader, envCreds, bodyCreds, dStatus, httpStatus,
                 coreVars, ext1Vars, exceptDaily>>

\* the Time Doctor block of handleDailySync
DailyTimeDoctor(o) ==
  /\ dRoute = "daily" /\ dPc = "time_doctor"
  /\ dPc' = "log"
  /\ IF CredentialsMissing(EffectiveCreds)
       THEN /\ syncs' = [syncs EXCEPT !["time_doctor"] = "error"]
            /\ errors' = Append(errors, "time_doctor")
            /\ UNCHANGED <<passesRun, fetched, written>>
       ELSE /\ passesRun' = passesRun \cup {"time_doctor"}
            /\ fetched' = fetched \cup {"timedoctor"}
            /\ written' = written \cup TDWritten(o)
            /\ syncs' = [syncs EXCEPT !["time_doctor"] = IF o = "ok" THEN "success" ELSE "error"]
            /\ errors' = IF o = "ok" THEN errors ELSE Append(errors, "time_doctor")
  /\ UNCHANGED <<dRoute, syncSecret, authHeader, envCreds, bodyCreds, dStatus, httpStatus,
                 coreVars, ext1Vars, exceptDaily>>

\* the overall status, the daily sync log (its insert may raise) and the response
DailyFinish(logOk) ==
  /\ dRoute = "daily" /\ dPc = "log"
  /\ dPc' = "responded"
  /\ dStatus' = IF Len(errors) > 0 THEN "partial" ELSE "success"
  /\ written' = IF logOk THEN written \cup {"sync_logs"} ELSE written
  /\ httpStatus' = IF Len(errors) > 0 THEN 207 ELSE 200
  /\ UNCHANGED <<dRoute, syncSecret, authHeader, envCreds, bodyCreds, syncs, errors,
                 passesRun, fetched, coreVars, ext1Vars, exceptDaily>>

\* POST /api/timedoctor/sync; bodyOk: request.json() did not raise
TimeDoctorRoute(bodyOk, o) ==
  /\ dRoute = "timedoctor" /\ dPc = "idle"
  /\ dPc' = "responded"
  /\ IF ~bodyOk
       THEN httpStatus' = 500 /\ UNCHANGED <<passesRun, fetched, written>>
     ELSE IF CredentialsMissing(EffectiveCreds)
       THEN httpStatus' = 400 /\ UNCHANGED <<passesRun, fetched, written>>
     ELSE /\ passesRun' = passesRun \cup {"time_doctor"}
          /\ fetched' = fetched \cup {"timedoctor"}
          /\ written' = written \cup TDWritten(o)
          /\ httpStatus' = IF o = "ok" THEN 200 ELSE 500
  /\ UNCHANGED <<dRoute, syncSecret, authHeader, envCreds, bodyCreds, syncs, errors, dStatus,
                 coreVars, ext1Vars, exceptDaily>>

NextDaily ==
  \/ DailyAuthorize
  \/ \E k \in {1, 2}, o \in {"success", "partial", "failed"} : DailyEntity(k, o)
  \/ \E o \in TDSyncOutcomes : DailyTimeDoctor(o)
  \/ \E logOk \in BOOLEAN : DailyFinish(logOk)
  \/ \E bodyOk \in BOOLEAN, o \in TDSyncOutcomes : TimeDoctorRoute(bodyOk, o)

SpecDaily == InitDaily /\ [][NextDaily]_vars

\* C25: the daily sync reports a status per entity type, one error entry per
\* failed entity-type sync, runs every entity-type sync whatever the others
\* did, and its overall status is 'success' only when all fully succeeded,
\* 'failed' when all failed, 'partial' otherwise.
C25_CompositeStatus ==
  (dRoute = "daily" /\ dPc = "responded" /\ httpStatus # 401) =>
    /\ \A e \in EntitySet : syncs[e] # "none"
    /\ \A e \in EntitySet :
         Cardinality({i \in DOMAIN errors : errors[i] = e}) = IF syncs[e] = "error" THEN 1 ELSE 0
    /\ dStatus = IF \A e \in EntitySet : syncs[e] = "success" THEN "success"
                 ELSE IF \A e \in EntitySet : syncs[e] = "error" THEN "failed"
                 ELSE "partial"

\* C29: with the API token or the company id missing, no Time Doctor request
\* is sent and no Time Doctor collection is written, and the response carries
\* the error (Time Doctor endpoint: status 400 unless the body could not be
\* read; daily sync: the time_doctor entry and the error list).
C29_NoCredentialsNoFetch ==
  (EffectiveCreds.apiToken = NULL \/ EffectiveCreds.companyId = NULL) =>
    /\ "timedoctor" \notin fetched
    /\ written \cap TDCollections = {}
    /\ "time_doctor" \notin passesRun
    /\ (dRoute = "timedoctor" /\ dPc = "responded") => httpStatus \in {400, 500}
    /\ (dRoute = "daily" /\ dPc = "responded" /\ httpStatus # 401) =>
         /\ syncs["time_doctor"] = "error"
         /\ \E i \in DOMAIN errors : errors[i] = "time_doctor"
         /\ httpStatus = 207

\* C29 witness: the daily sync has answered, its other syncs succeeded and the
\* Time Doctor sync was given up for the missing company id
C29_Witness ==
  /\ dRoute = "daily" /\ dPc = "responded"
  /\ envCreds = [apiToken |-> "t", companyId |-> NULL]
  /\ syncs = [e \in EntitySet |-> IF e = "time_doctor" THEN "error" ELSE "success"]
  /\ errors = <<"time_doctor">>
  /\ fetched = {"notion"}

\* C30: when SYNC_SECRET is set, a request to the daily endpoint whose
\* Authorization header is not 'Bearer <secret>' is answered 401 and runs no
\* sync, sends no request and writes nothing.
C30_UnauthorizedRejected ==
  (dRoute = "daily" /\ syncSecret # NULL /\ authHeader # Bearer(syncSecret)) =>
    /\ passesRun = {} /\ fetched = {} /\ written = {}
    /\ dStatus = "none"
    /\ dPc \in {"idle", "responded"}
    /\ dPc = "responded" => httpStatus = 401

\* C30 witness: a request with another bearer token was answered 401
C30_Witness ==
  /\ dRoute = "daily" /\ dPc = "responded"
  /\ syncSecret = "s" /\ authHeader = "Bearer x"
  /\ httpStatus = 401 /\ written = {}

(***************************************************************************)
(* SpecMetrics: calculateMetrics over a fixed cards collection, January    *)
(* 2024. Instants are ticks since 1 January 2024 00:00, TicksPerDay ticks  *)
(* to the day; a missing date or number is Absent.                         *)
(***************************************************************************)
MaxMetricRuns == 2

\* null / undefined of a date or number field
Absent == 0 - 1

Developers == {"d1", "d2"}

PeriodTypes == {"daily", "weekly", "monthly"}

\* the instant `tick` ticks after midnight of the day of month dom
At(dom, tick) == (dom - 1) * TicksPerDay + tick

\* Date.getDate(): the day of the month
GetDate(t) == (t \div TicksPerDay) + 1

\* Date.getDay(): 0 is Sunday; 1 January 2024 is a Monday
GetDay(t) == GetDate(t) % 7

PeriodStart(periodType, t) ==
  CASE periodType = "daily" -> At(GetDate(t), 0)
    [] periodType = "weekly" ->
         At(GetDate(t) - GetDay(t) + (IF GetDay(t) = 0 THEN 0 - 6 ELSE 1), 0)
    [] OTHER -> At(1, 0)

PeriodEnd(periodType, t) ==
  CASE periodType = "daily" -> PeriodStart(periodType, t) + TicksPerDay
    [] periodType = "weekly" -> PeriodStart(periodType, t) + 7 * TicksPerDay
    [] OTHER -> At(32, 0)

\* created_at: { $gte: periodStart, $lt: periodEnd }
InPeriod(card, periodType, t) ==
  /\ card.created_at >= PeriodStart(periodType, t)
  /\ card.created_at < PeriodEnd(periodType, t)

\* developer_ids?.[0] || developer?.[0]
PrimaryDeveloper(card) ==
  IF Len(card.developer_ids) > 0 THEN card.developer_ids[1]
  ELSE IF Len(card.developer) > 0 THEN card.developer[1]
  ELSE NULL

\* the deadline, from the Original Due Date only
Deadline(card) ==
  IF card.original_due_date.start # Absent THEN card.original_due_date.start
  ELSE IF card.original_due_date.end # Absent THEN card.original_due_date.end
  ELSE Absent

\* a resolution that takes the deployment date first
CompletedDateDeploymentFirst(card) ==
  IF card.deployment_date # Absent THEN card.deployment_date
  ELSE IF card.done_date # Absent THEN card.done_date
  ELSE card.ready_for_client_date

\* the completion date: ready for client, else done, else deployment
CompletedDate(card) ==
  IF card.ready_for_client_date # Absent THEN card.ready_for_client_date
  ELSE IF card.done_date # Absent THEN card.done_date
  ELSE card.deployment_date

\* a rounding up to the next whole day
DaysLateCeil(completedDate, deadline) ==
  (completedDate - deadline + TicksPerDay - 1) \div TicksPerDay

\* Math.floor((completedDate - deadline) / (1000 * 60 * 60 * 24))
DaysLate(completedDate, deadline) == (completedDate - deadline) \div TicksPerDay

RECURSIVE GCD(_, _)
GCD(a, b) == IF b = 0 THEN a ELSE GCD(b, a % b)

\* the number n / d, in lowest terms
Frac(n, d) == [num |-> n \div GCD(n, d), den |-> d \div GCD(n, d)]

RECURSIVE SeqSum(_)
SeqSum(s) == IF s = <<>> THEN 0 ELSE s[1] + SeqSum(Tail(s))

\* the filter of the metrics_cache upserts; team_member_id NULL: { $exists: false }
SampleKey(doc) == <<doc.metric_type, doc.period_type, doc.period_start, doc.team_member_id>>

\* an insertOne in place of the upsert
InsertMetric(cache, metric) == Append(cache, metric)

\* updateOne(filter, { $set: metric }, { upsert: true })
UpsertMetric(cache, metric) ==
  IF \E i \in DOMAIN cache : SampleKey(cache[i]) = SampleKey(metric)
    THEN LET i == CHOOSE k \in DOMAIN cache :
                    /\ SampleKey(cache[k]) = SampleKey(metric)
                    /\ \A j \in 1..(k - 1) : SampleKey(cache[j]) # SampleKey(metric)
         IN  [cache EXCEPT ![i] = metric]
    ELSE Append(cache, metric)

Metric(metricType, periodType, t, teamMemberId, value) ==
  [metric_type |-> metricType, period_type |-> periodType,
   period_start |-> PeriodStart(periodType, t), period_end |-> PeriodEnd(periodType, t),
   team_member_id |-> teamMemberId, value |-> value, calculated_at |-> t]

\* the pushback counter of a card: $ifNull: [field, 0]
PushbackOf(card, metricType) ==
  LET v == IF metricType = "qi_pushbacks" THEN card.pushback_count
           ELSE card.quantifiable_client_pushback
  IN  IF v = Absent THEN 0 ELSE v

\* the $group stage: the period cards of developer d
GroupCards(cs, periodType, t, d) ==
  {i \in DOMAIN cs : InPeriod(cs[i], periodType, t) /\ PrimaryDeveloper(cs[i]) = d}

CardsWithPushbacks(cs, metricType, group) ==
  Cardinality({i \in group : PushbackOf(cs[i], metricType) > 0})

RECURSIVE StorePushback(_, _, _, _, _, _)
StorePushback(cache, cs, metricType, periodType, t, ds) ==
  IF ds = <<>> THEN cache
  ELSE LET group == GroupCards(cs, periodType, t, Head(ds))
           rate == Frac(CardsWithPushbacks(cs, metricType, group) * 100, Cardinality(group))
       IN  StorePushback(IF group = {} THEN cache
                         ELSE UpsertMetric(cache, Metric(metricType, periodType, t, Head(ds), rate)),
                         cs, metricType, periodType, t, Tail(ds))

DeveloperOrder == <<"d1", "d2">>

CalculatePushbackMetrics(cache, cs, metricType, periodType, t) ==
  LET all == {i \in DOMAIN cs : InPeriod(cs[i], periodType, t) /\ PrimaryDeveloper(cs[i]) # NULL}
      overallRate == IF Cardinality(all) > 0
                       THEN Frac(CardsWithPushbacks(cs, metricType, all) * 100, Cardinality(all))
                       ELSE Frac(0, 1)
  IN  UpsertMetric(StorePushback(cache, cs, metricType, periodType, t, DeveloperOrder),
                   Metric(metricType, periodType, t, NULL, overallRate))

\* the cards found: created in the period, with an Original Due Date
FoundCards(cs, periodType, t) ==
  {i \in DOMAIN cs : /\ InPeriod(cs[i], periodType, t)
                     /\ cs[i].original_due_date # [start |-> Absent, end |-> Absent]}

\* the cards of the loop that reach the completion date
ResolvedCards(cs, periodType, t) ==
  {i \in FoundCards(cs, periodType, t) :
     PrimaryDeveloper(cs[i]) # NULL /\ Deadline(cs[i]) # Absent}

RECURSIVE GroupDaysLate(_, _, _, _, _)
GroupDaysLate(cs, i, periodType, t, by) ==
  IF i > Len(cs) THEN by
  ELSE IF /\ i \in ResolvedCards(cs, periodType, t)
          /\ CompletedDate(cs[i]) # Absent
          /\ CompletedDate(cs[i]) > Deadline(cs[i])
    THEN GroupDaysLate(cs, i + 1, periodType, t,
           [by EXCEPT ![PrimaryDeveloper(cs[i])] =
              Append(@, DaysLate(CompletedDate(cs[i]), Deadline(cs[i])))])
    ELSE GroupDaysLate(cs, i + 1, periodType, t, by)

NoDaysLate == [d \in Developers |-> <<>>]

RECURSIVE StoreDaysLate(_, _, _, _, _)
StoreDaysLate(cache, by, periodType, t, ds) ==
  IF ds = <<>> THEN cache
  ELSE StoreDaysLate(IF by[Head(ds)] = <<>> THEN cache
                     ELSE UpsertMetric(cache,
                            Metric("avg_days_late", periodType, t, Head(ds),
                                   Frac(SeqSum(by[Head(ds)]), Len(by[Head(ds)])))),
                     by, periodType, t, Tail(ds))

CalculateDaysLateMetrics(cache, cs, periodType, t) ==
  LET by == GroupDaysLate(cs, 1, periodType, t, NoDaysLate)
      allDaysLate == by["d1"] \o by["d2"]
      overall == IF Len(allDaysLate) > 0 THEN Frac(SeqSum(allDaysLate), Len(allDaysLate))
                 ELSE Frac(0, 1)
  IN  UpsertMetric(StoreDaysLate(cache, by, periodType, t, DeveloperOrder),
                   Metric("avg_days_late", periodType, t, NULL, overall))

NoDue == [start |-> Absent, end |-> Absent]

FirstCards ==
  [developer_ids : {<<>>, <<"d1">>, <<"d2", "d1">>},
   created_at : {At(9, 0), At(16, 0)},
   original_due_date : {NoDue, [start |-> At(10, 0), end |-> Absent]},
   ready_for_client_date : {Absent, At(15, 0)},
   done_date : {Absent, At(10, 1)},
   deployment_date : {Absent, At(11, 1)},
   pushback_count : {Absent, 2},
   quantifiable_client_pushback : {Absent}]

SecondCards ==
  [developer_ids : {<<"d1">>},
   created_at : {At(16, 0)},
   original_due_date : {[start |-> At(10, 0), end |-> Absent]},
   ready_for_client_date : {Absent, At(10, 0), At(15, 0)},
   done_date : {Absent},
   deployment_date : {Absent},
   pushback_count : {Absent},
   quantifiable_client_pushback : {1}]

\* developer is stored next to developer_ids, from the same property
WithDeveloper(c) == [x \in DOMAIN c \cup {"developer"} |->
                       IF x = "developer" THEN c.developer_ids ELSE c[x]]

InitMetrics ==
  /\ PassIdle
  /\ ConcIdle
  /\ TDIdle
  /\ GhostIdle
  /\ Ext1Idle
  /\ exceptMetricsIdle
  /\ now = 0 /\ source = <<>> /\ cards = <<>> /\ history = <<>>
  /\ \E c1 \in FirstCards, c2 \in SecondCards : mCards = <<WithDeveloper(c1), WithDeveloper(c2)>>
  /\ mNow = At(17, 0) - 1
  /\ metrics_cache = <<>>
  /\ mHistory = <<>>
  /\ byDeveloper = NoDaysLate
  /\ completedDates = <<>>

\* calculateMetrics(periodType)
CalculateMetrics(periodType) ==
  /\ Len(mHistory) < MaxMetricRuns
  /\ metrics_cache' =
       CalculateDaysLateMetrics(
         CalculatePushbackMetrics(
           CalculatePushbackMetrics(metrics_cache, mCards, "qi_pushbacks", periodType, mNow),
           mCards, "client_pushbacks", periodType, mNow),
         mCards, periodType, mNow)
  /\ byDeveloper' = GroupDaysLate(mCards, 1, periodType, mNow, NoDaysLate)
  /\ completedDates' = [i \in ResolvedCards(mCards, periodType, mNow) |-> CompletedDate(mCards[i])]
  /\ mHistory' = Append(mHistory, <<periodType, PeriodStart(periodType, mNow)>>)
  /\ UNCHANGED <<mCards, mNow, coreVars, ext1Vars, exceptMetrics>>

\* time passes
MetricsTick ==
  /\ mNow < At(17, 0)
  /\ mNow' = mNow + 1
  /\ UNCHANGED <<mCards, metrics_cache, mHistory, byDeveloper, completedDates,
                 coreVars, ext1Vars, exceptMetrics>>

NextMetrics ==
  \/ \E periodType \in PeriodTypes : CalculateMetrics(periodType)
  \/ MetricsTick

SpecMetrics == InitMetrics /\ [][NextMetrics]_vars

\* the last run, and the cards of developer d it counts as late
LastRun == mHistory[Len(mHistory)]

LateCards(d) ==
  {i \in DOMAIN mCards :
     /\ mCards[i].created_at >= LastRun[2]
     /\ mCards[i].created_at < PeriodEnd(LastRun[1], LastRun[2])
     /\ PrimaryDeveloper(mCards[i]) = d
     /\ mCards[i].original_due_date.start # Absent
     /\ i \in DOMAIN completedDates
     /\ completedDates[i] # Absent
     /\ completedDates[i] > mCards[i].original_due_date.start}

RECURSIVE WholeDaysSum(_)
WholeDaysSum(S) ==
  IF S = {} THEN 0
  ELSE LET i == CHOOSE k \in S : TRUE
       IN  ((completedDates[i] - mCards[i].original_due_date.start) \div TicksPerDay)
           + WholeDaysSum(S \ {i})

\* C26: after calculateDaysLateMetrics, the average-days-late sample of each
\* assignee with a late period card is the mean of the whole days (floor)
\* between deadline and completion over the assignee's period cards completed
\* strictly after the deadline; cards without deadline or completion do not
\* enter the mean.
C26_AverageDaysLate ==
  mHistory # <<>> =>
    \A d \in Developers :
      LateCards(d) # {} =>
        \E i \in DOMAIN metrics_cache :
          /\ SampleKey(metrics_cache[i]) = <<"avg_days_late", LastRun[1], LastRun[2], d>>
          /\ metrics_cache[i].value.num * Cardinality(LateCards(d))
               = metrics_cache[i].value.den * WholeDaysSum(LateCards(d))
          /\ \A j \in DOMAIN metrics_cache :
               SampleKey(metrics_cache[j]) = SampleKey(metrics_cache[i]) => j = i

\* C26 witness: d1 has a card completed on 15 January against a deadline of
\* 10 January and a card without completion date; the average is 5
C26_Witness ==
  /\ mHistory # <<>>
  /\ LateCards("d1") = {1}
  /\ mCards[1].original_due_date.start = At(10, 0)
  /\ completedDates[1] = At(15, 0)
  /\ PrimaryDeveloper(mCards[2]) = "d1"
  /\ mCards[2].original_due_date.start = At(10, 0)
  /\ 2 \in DOMAIN completedDates /\ completedDates[2] = Absent
  /\ \E i \in DOMAIN metrics_cache :
       /\ SampleKey(metrics_cache[i]) = <<"avg_days_late", LastRun[1], LastRun[2], "d1">>
       /\ metrics_cache[i].value = [num |-> 5, den |-> 1]

\* C27: the completion date resolved for a card is its ready-for-client date
\* if present, else its done date if present, else its deployment date.
C27_CompletionDatePriority ==
  \A i \in DOMAIN completedDates :
    completedDates[i] =
      IF mCards[i].ready_for_client_date # Absent THEN mCards[i].ready_for_client_date
      ELSE IF mCards[i].done_date # Absent THEN mCards[i].done_date
      ELSE mCards[i].deployment_date

\* C27 witness: a card without ready-for-client date, with done and
\* deployment date, is resolved to its done date
C27_Witness ==
  /\ 1 \in DOMAIN completedDates
  /\ mCards[1].ready_for_client_date = Absent
  /\ mCards[1].done_date = At(10, 1)
  /\ mCards[1].deployment_date = At(11, 1)
  /\ completedDates[1] = At(10, 1)

\* C28: a calculateMetrics run keeps every sample key of metrics_cache with
\* its value (the cards are unchanged) and leaves one sample per key (metric
\* type, period type, period start, assignee or none).
C28_OneSamplePerKey ==
  [][/\ \A i \in DOMAIN metrics_cache : \E j \in DOMAIN metrics_cache' :
          /\ SampleKey(metrics_cache'[j]) = SampleKey(metrics_cache[i])
          /\ metrics_cache'[j].value = metrics_cache[i].value
     /\ \A j, k \in DOMAIN metrics_cache' :
          SampleKey(metrics_cache'[j]) = SampleKey(metrics_cache'[k]) => j = k]_vars

\* C28 witness: two runs of the same period type in the same period, on
\* different days, with a late card and a card with pushbacks
C28_Witness ==
  /\ Len(mHistory) = 2
  /\ mHistory[1] = mHistory[2]
  /\ \E i, j \in DOMAIN metrics_cache :
       /\ metrics_cache[i].metric_type = "avg_days_late"
       /\ metrics_cache[i].team_member_id = "d1"
       /\ metrics_cache[i].value.num > 0
       /\ metrics_cache[i].calculated_at = At(17, 0)
       /\ metrics_cache[j].metric_type = "qi_pushbacks"
       /\ metrics_cache[j].team_member_id = NULL
       /\ metrics_cache[j].value.num > 0

\* C31: within a pass the stages are fetch, batched processing, finalization:
\* a page is transformed or a card or history record written only in the page
\* loop, after the fetch has returned the page list, before the pass has
\* written its record to sync_logs, and never once the pass is in its catch
\* block or has thrown.
C31_StageOrder ==
  [][(attempts' # attempts /\ passes' = passes) \/ cards' # cards \/ history' # history =>
       /\ pc = "loop" /\ pc' = "loop"
       /\ ~fetchRaised
       /\ Len(filteredPages) > 0 /\ filteredPages' = filteredPages
       /\ Len(syncLogs) = logBase
       /\ logTries = 0
       /\ thrown = NULL /\ err = NULL]_vars

\* C31 witness: a pass over three pages in two batches has written its cards
\* and then its one record
C31_Witness ==
  /\ pc = "returned"
  /\ Len(filteredPages) = 3
  /\ batchStart >= Len(filteredPages)
  /\ Len(cards) >= 2
  /\ \A k \in 1..3 : attempts[k] = 1
  /\ Len(syncLogs) = logBase + 1

(***************************************************************************)
(* SpecClientName: the client lookup of transformProjectPage, against the  *)
(* clients collection filled by syncClients.                               *)
(***************************************************************************)
ClientRelations == {<<>>, <<"c1">>, <<"c2">>, <<"c1", "c2">>, <<"c2", "c1">>}

StoredNames == {"Acme", "Beta", "Untitled"}

\* how notion.pages.retrieve of the client page ends
RetrieveOutcomes == {"title", "notitle", "raise"}

\* a lookup that asks Notion for the client page whatever the store holds
ClientLookupAlwaysRetrieve(client, docs, storeOk, fo) ==
  IF Len(client) = 0 THEN [NoLookup EXCEPT !.called = TRUE]
  ELSE [called |-> TRUE, client |-> client, client_id |-> client[1],
        client_name |-> IF fo = "title" THEN "Notion name"
                        ELSE IF storeOk THEN docs[client[1]] ELSE NULL,
        retrieved |-> {client[1]}]

\* client_id and client_name of the page: findOne in clients, and the Notion
\* page of the client only when findOne returns no document
ClientLookup(client, docs, storeOk, fo) ==
  IF Len(client) = 0 THEN [NoLookup EXCEPT !.called = TRUE]
  ELSE IF ~storeOk
    THEN [called |-> TRUE, client |-> client, client_id |-> client[1],
          client_name |-> NULL, retrieved |-> {}]
  ELSE IF docs[client[1]] # NULL
    THEN [called |-> TRUE, client |-> client, client_id |-> client[1],
          client_name |-> docs[client[1]], retrieved |-> {}]
  ELSE [called |-> TRUE, client |-> client, client_id |-> client[1],
        client_name |-> IF fo = "title" THEN "Notion name" ELSE NULL,
        retrieved |-> {client[1]}]

InitClientName ==
  /\ PassIdle
  /\ ConcIdle
  /\ TDIdle
  /\ GhostIdle
  /\ Ext1Idle
  /\ exceptLookupIdle
  /\ now = 0 /\ source = <<>> /\ cards = <<>> /\ history = <<>>
  /\ clientDocs = [c \in ClientPageIds |-> NULL]
  /\ nameLookup = NoLookup

\* syncClients upserts the record of a client
SyncClient(c, name) ==
  /\ ~nameLookup.called
  /\ clientDocs' = [clientDocs EXCEPT ![c] = name]
  /\ UNCHANGED <<nameLookup, coreVars, ext1Vars, exceptLookup>>

\* transformProjectPage of a page with the Client relation `client`
TransformClientLookup(client, storeOk, fo) ==
  /\ ~nameLookup.called
  /\ nameLookup' = ClientLookup(client, clientDocs, storeOk, fo)
  /\ UNCHANGED <<clientDocs, coreVars, ext1Vars, exceptLookup>>

\* the transform returns
TransformReturn ==
  /\ nameLookup.called
  /\ nameLookup' = NoLookup
  /\ UNCHANGED <<clientDocs, coreVars, ext1Vars, exceptLookup>>

NextClientName ==
  \/ \E c \in ClientPageIds, name \in StoredNames : SyncClient(c, name)
  \/ \E client \in ClientRelations, storeOk \in BOOLEAN, fo \in RetrieveOutcomes :
       TransformClientLookup(client, storeOk, fo)
  \/ TransformReturn

SpecClientName == InitClientName /\ [][NextClientName]_vars

\* C33: the client name of a page comes from the clients store when the
\* store holds the client's record, and then no client page is retrieved
\* from Notion; a client page is retrieved only for the page's first client
\* and only when the store has no record of it.
C33_StoreBeforeFetch ==
  nameLookup.called =>
    /\ \A c \in nameLookup.retrieved :
         /\ Len(nameLookup.client) > 0 /\ c = nameLookup.client[1]
         /\ clientDocs[c] = NULL
    /\ \A c \in ClientPageIds :
         (Len(nameLookup.client) > 0 /\ nameLookup.client[1] = c /\ clientDocs[c] # NULL) =>
           /\ nameLookup.retrieved = {}
           /\ nameLookup.client_name \in {clientDocs[c], NULL}

\* C33 witness: c1 is in the store and c2 is not; the page of client c1 got
\* its name from the store without a request
C33_Witness ==
  /\ nameLookup.called
  /\ nameLookup.client = <<"c1", "c2">>
  /\ clientDocs["c1"] = "Acme" /\ clientDocs["c2"] = NULL
  /\ nameLookup.client_name = "Acme"
  /\ nameLookup.retrieved = {}

(***************************************************************************)
(* SpecExtract: one extractProperty call of transformProjectPage. A        *)
(* property value is taken by its shape: "ok", "no_field" (the object has  *)
(* no field of its type), "not_array" (the field is an object that is no   *)
(* array or has the wrong type), "null_item" (an array field with a null   *)
(* after its first item, or a null field); "absent": not in the bag.       *)
(***************************************************************************)
PropertyTypes ==
  {"title", "rich_text", "select", "date", "people", "relation", "number", "checkbox",
   "formula", "rollup", "url", "email", "phone_number", "multi_select", "files",
   "created_time", "last_edited_time"}

Shapes == {"ok", "no_field", "not_array", "null_item"}

\* the direct calls at the head of the transform, and the call of the generic
\* loop, which is inside a try block
Callers == {"direct", "generic"}

Returned(v) == [raised |-> FALSE, value |-> v]

Raised == [raised |-> TRUE, value |-> "null"]

\* the switch of extractProperty on a property that was found
ExtractFound(type, shape) ==
  CASE type \in {"title", "rich_text"} ->
         IF shape = "ok" THEN Returned("value")
         ELSE IF shape = "null_item" THEN Raised
         ELSE Returned("empty_string")
    [] type = "select" -> IF shape = "ok" THEN Returned("value") ELSE Returned("null")
    [] type = "date" ->
         IF shape \in {"no_field", "null_item"} THEN Returned("null") ELSE Returned("value")
    [] type \in {"people", "relation", "multi_select", "files"} ->
         IF shape = "ok" THEN Returned("value")
         ELSE IF shape = "no_field" THEN Returned("empty_array")
         ELSE Raised
    [] type \in {"number", "checkbox", "url", "email", "phone_number"} ->
         IF shape = "no_field" THEN Returned("undefined")
         ELSE IF shape = "null_item" THEN Returned("null")
         ELSE Returned("value")
    [] type = "formula" -> IF shape = "ok" THEN Returned("value") ELSE Returned("null")
    [] type = "rollup" ->
         IF shape = "no_field" THEN Returned("null")
         ELSE IF shape = "null_item" THEN Raised
         ELSE Returned("value")
    [] type \in {"created_time", "last_edited_time"} ->
         IF shape \in {"no_field", "null_item"} THEN Returned("null") ELSE Returned("value")

\* extractProperty(page, propertyId, propertyType, propertyName)
ExtractTyped(call) ==
  LET prop == IF call.byId # "absent" THEN call.byId ELSE call.byName
  IN  IF prop = "absent" THEN Returned("null") ELSE ExtractFound(call.type, prop)

InitExtract ==
  /\ PassIdle
  /\ ConcIdle
  /\ TDIdle
  /\ GhostIdle
  /\ Ext1Idle
  /\ exceptExtractIdle
  /\ now = 0 /\ source = <<>> /\ cards = <<>> /\ history = <<>>
  /\ epCall \in [type : PropertyTypes, byId : Shapes \cup {"absent"},
                 byName : Shapes \cup {"absent"}, caller : Callers]
  /\ epResult = NoExtract

\* the call and what its caller does with a raise: the generic loop catches
\* it and stores nothing, a direct call lets it leave transformProjectPage
ExtractCall ==
  /\ ~epResult.done
  /\ epResult' = [done |-> TRUE,
                  raised |-> ExtractTyped(epCall).raised,
                  value |-> ExtractTyped(epCall).value,
                  aborted |-> ExtractTyped(epCall).raised /\ epCall.caller = "direct"]
  /\ UNCHANGED <<epCall, coreVars, ext1Vars, exceptExtract>>

NextExtract == ExtractCall

SpecExtract == InitExtract /\ [][NextExtract]_vars

\* C32: extractProperty never raises: a bag with neither the identifier nor
\* the name gives null for every property type, and a malformed value gives
\* an absent or empty value and does not abort the page transform.
C32_NeverRaises ==
  epResult.done =>
    /\ ~epResult.raised
    /\ ~epResult.aborted
    /\ (epCall.byId = "absent" /\ epCall.byName = "absent") => epResult.value = "null"

\* the period cards of the last run, and those with a positive pushback counter
LastPeriodCards ==
  {i \in DOMAIN mCards : /\ mCards[i].created_at >= LastRun[2]
                         /\ mCards[i].created_at < PeriodEnd(LastRun[1], LastRun[2])}

PositivePushback(S, metricType) ==
  {i \in S : IF metricType = "qi_pushbacks"
               THEN mCards[i].pushback_count # Absent /\ mCards[i].pushback_count > 0
               ELSE /\ mCards[i].quantifiable_client_pushback # Absent
                    /\ mCards[i].quantifiable_client_pushback > 0}

\* the sample of the last run's period for (metricType, who) is 100 * |positive| / |all|
RateSampleIs(metricType, who, positive, all) ==
  \E i \in DOMAIN metrics_cache :
    /\ SampleKey(metrics_cache[i]) = <<metricType, LastRun[1], LastRun[2], who>>
    /\ IF all = {} THEN metrics_cache[i].value.num = 0
       ELSE metrics_cache[i].value.num * Cardinality(all)
              = metrics_cache[i].value.den * 100 * Cardinality(positive)

\* C34: after calculatePushbackMetrics, the rate of each assignee with period
\* cards is 100 x (the assignee's period cards with a positive pushback
\* counter) / (the assignee's period cards), and the overall sample is the
\* same ratio over all cards of the period, 0 when the period has no card.
C34_PushbackRates ==
  mHistory # <<>> =>
    \A metricType \in {"qi_pushbacks", "client_pushbacks"} :
      /\ \A d \in Developers :
           LET mine == {i \in LastPeriodCards : PrimaryDeveloper(mCards[i]) = d}
           IN  mine # {} => RateSampleIs(metricType, d, PositivePushback(mine, metricType), mine)
      /\ RateSampleIs(metricType, NULL, PositivePushback(LastPeriodCards, metricType),
                      LastPeriodCards)

(***************************************************************************)
(* SpecMetricsEdit: calculateMetrics runs between which the card sync      *)
(* rewrites cards (a new assignee, a new Original Due Date).               *)
(***************************************************************************)
EditableCard ==
  [developer_ids |-> <<"d1">>, developer |-> <<"d1">>, created_at |-> At(16, 0),
   original_due_date |-> [start |-> At(10, 0), end |-> Absent],
   ready_for_client_date |-> At(15, 0), done_date |-> Absent, deployment_date |-> Absent,
   pushback_count |-> 2, quantifiable_client_pushback |-> Absent]

InitMetricsEdit ==
  /\ PassIdle
  /\ ConcIdle
  /\ TDIdle
  /\ GhostIdle
  /\ Ext1Idle
  /\ exceptMetricsIdle
  /\ now = 0 /\ source = <<>> /\ cards = <<>> /\ history = <<>>
  /\ \E p1, p2 \in {Absent, 2} :
       mCards = <<[EditableCard EXCEPT !.pushback_count = p1],
                  [EditableCard EXCEPT !.pushback_count = p2,
                                       !.ready_for_client_date = At(11, 1)]>>
  /\ mNow = At(16, 0)
  /\ metrics_cache = <<>>
  /\ mHistory = <<>>
  /\ byDeveloper = NoDaysLate
  /\ completedDates = <<>>

\* the card sync upserts card i with another Developer
ReassignCard(i, ids) ==
  /\ ids # mCards[i].developer_ids
  /\ mCards' = [mCards EXCEPT ![i].developer_ids = ids, ![i].developer = ids]
  /\ UNCHANGED <<mNow, metrics_cache, mHistory, byDeveloper, completedDates,
                 coreVars, ext1Vars, exceptMetrics>>

\* the card sync upserts card i with another Original Due Date
MoveDueDate(i, due) ==
  /\ due # mCards[i].original_due_date.start
  /\ mCards' = [mCards EXCEPT ![i].original_due_date.start = due]
  /\ UNCHANGED <<mNow, metrics_cache, mHistory, byDeveloper, completedDates,
                 coreVars, ext1Vars, exceptMetrics>>

NextMetricsEdit ==
  \/ \E periodType \in PeriodTypes : CalculateMetrics(periodType)
  \/ \E ids \in {<<>>, <<"d1">>, <<"d2">>} : ReassignCard(2, ids)
  \/ \E due \in {At(10, 0), At(15, 0)} : MoveDueDate(1, due)

SpecMetricsEdit == InitMetricsEdit /\ [][NextMetricsEdit]_vars

\* every per-assignee sample of the last run's period is what the cards give
SamplesFresh ==
  \A i \in DOMAIN metrics_cache :
    LET m    == metrics_cache[i]
        mine == {k \in LastPeriodCards : PrimaryDeveloper(mCards[k]) = m.team_member_id}
    IN  (m.team_member_id # NULL /\ m.period_type = LastRun[1] /\ m.period_start = LastRun[2]) =>
          IF m.metric_type = "avg_days_late"
            THEN /\ LateCards(m.team_member_id) # {}
                 /\ m.value.num * Cardinality(LateCards(m.team_member_id))
                      = m.value.den * WholeDaysSum(LateCards(m.team_member_id))
            ELSE /\ mine # {}
                 /\ m.value.num * Cardinality(mine)
                      = m.value.den * 100 * Cardinality(PositivePushback(mine, m.metric_type))

\* C37: when calculateMetrics has completed, every stored per-assignee sample
\* of the current period equals the value computed from the cards now in the
\* store; none keeps the value of an assignee without qualifying cards.
C37_NoStaleSample == [][mHistory' # mHistory => SamplesFresh']_vars

(***************************************************************************)
(* SpecNormalize: normalizePropertyName over names of up to MaxNameLen     *)
(* characters of NameChars.                                                *)
(***************************************************************************)
MaxNameLen == 4

NameChars == {"a", "A", "1", " ", "_", "-"}

\* the characters of [a-z0-9] among NameChars
LowerAlnum == {"a", "1"}

\* .replace(/[^a-z0-9]+/g, '_')
RECURSIVE ReplaceSpecial(_)
ReplaceSpecial(s) ==
  IF s = <<>> THEN <<>>
  ELSE IF Head(s) \in LowerAlnum THEN <<Head(s)>> \o ReplaceSpecial(Tail(s))
  ELSE IF Len(s) > 1 /\ s[2] \notin LowerAlnum THEN ReplaceSpecial(Tail(s))
  ELSE <<"_">> \o ReplaceSpecial(Tail(s))

\* a step that leaves the leading and trailing underscores
KeepUnderscores(s) == s

\* .replace(/^_+|_+$/g, '')
RECURSIVE StripUnderscores(_)
StripUnderscores(s) ==
  IF s # <<>> /\ Head(s) = "_" THEN StripUnderscores(Tail(s))
  ELSE IF s # <<>> /\ s[Len(s)] = "_" THEN StripUnderscores(SubSeq(s, 1, Len(s) - 1))
  ELSE s

\* .replace(/_+/g, '_')
RECURSIVE CollapseUnderscores(_)
CollapseUnderscores(s) ==
  IF Len(s) < 2 THEN s
  ELSE IF s[1] = "_" /\ s[2] = "_" THEN CollapseUnderscores(Tail(s))
  ELSE <<Head(s)>> \o CollapseUnderscores(Tail(s))

\* normalizePropertyName(name), character by character
NormalizeName(name) ==
  CollapseUnderscores(StripUnderscores(ReplaceSpecial(Trim(ToLowerCase(name)))))

RECURSIVE NamesOfLength(_)
NamesOfLength(n) ==
  IF n = 0 THEN {<<>>}
  ELSE {<<c>> \o s : c \in NameChars, s \in NamesOfLength(n - 1)}

InitNormalize ==
  /\ PassIdle
  /\ ConcIdle
  /\ TDIdle
  /\ GhostIdle
  /\ Ext1Idle
  /\ exceptNormIdle
  /\ now = 0 /\ source = <<>> /\ cards = <<>> /\ history = <<>>
  /\ \E n \in 0..MaxNameLen : npName \in NamesOfLength(n)
  /\ npOut = NoNorm

\* the name is normalised, and the result normalised again
NormalizeCall ==
  /\ ~npOut.done
  /\ npOut' = [done |-> TRUE, once |-> NormalizeName(npName),
               twice |-> NormalizeName(NormalizeName(npName))]
  /\ UNCHANGED <<npName, coreVars, ext1Vars, exceptNorm>>

NextNormalize == NormalizeCall

SpecNormalize == InitNormalize /\ [][NextNormalize]_vars

\* C35: normalizePropertyName is idempotent, and its output holds only
\* lower-case letters, digits and single underscores, with no underscore at
\* either end.
C35_NormalizeIdempotent ==
  npOut.done =>
    /\ npOut.twice = npOut.once
    /\ \A i \in DOMAIN npOut.once : npOut.once[i] \in {"a", "1", "_"}
    /\ npOut.once # <<>> => (npOut.once[1] # "_" /\ npOut.once[Len(npOut.once)] # "_")
    /\ \A i \in 1..(Len(npOut.once) - 1) : ~(npOut.once[i] = "_" /\ npOut.once[i + 1] = "_")

\* C35 witness: the names " A_-" and "_A-1" become a and a_1
C35_Witness ==
  /\ npOut.done
  /\ npName = <<" ", "A", "_", "-">> \/ npName = <<"_", "A", "-", "1">>
  /\ npOut.once \in {<<"a">>, <<"a", "_", "1">>}

\* C36: every databases.query request of fetchAllPages asks for
\* min(100, limit - items held) items under a limit and for 100 otherwise
\* (100 is NOTION_PAGE_SIZE here), and the delay is taken between any two
\* consecutive requests of a fetch.
C36_PageSizeAndDelay ==
  /\ \A k \in DOMAIN fRequests :
       fRequests[k].page_size =
         IF limit # 0 THEN Min(NOTION_PAGE_SIZE, limit - fRequests[k].held)
         ELSE NOTION_PAGE_SIZE
  /\ \A k \in 1..(Len(fRequests) - 1) : fRequests[k].waited

\* C36 witness: 7 items under a limit of 5: requests for 2, 2 and 1 items,
\* with a delay after the first and the second
C36_Witness ==
  /\ fpc = "returned" /\ fTotal = 7 /\ limit = 5
  /\ [k \in DOMAIN fRequests |-> fRequests[k].page_size] = <<2, 2, 1>>
  /\ [k \in DOMAIN fRequests |-> fRequests[k].waited] = <<TRUE, TRUE, FALSE>>

\* the scheduler lets a started fetch go on: every request settles
FairSpecFetch == SpecFetch /\ WF_vars(NextFetch)

\* C40: fetchAllPages terminates: a started fetch returns or raises; the loop
\* goes on only after a response with has_more and a next cursor and below
\* the limit, and a returned fetch saw a response without further page or
\* reached its limit.
C40_FetchTerminates ==
  /\ [](fpc = "loop" => <>(fpc \in {"returned", "raised"}))
  /\ []((fpc = "loop" /\ fRequests # <<>>) =>
          /\ cursor # 0
          /\ Len(allPages) < fTotal
          /\ limit = 0 \/ Len(allPages) < limit)
  /\ [](fpc = "returned" => (cursor = 0 \/ (limit # 0 /\ Len(allPages) >= limit)))
  /\ [](Len(fRequests) <= fTotal + 1)

\* C40 witness: without limit, the fetch of 5 items has returned after the
\* third response, the first without further page
C40_Witness ==
  /\ fpc = "returned" /\ limit = 0 /\ fTotal = 5
  /\ Len(fRequests) = 3 /\ cursor = 0
  /\ Len(allPages) = 5

\* ---------------------------------------------------------------------------
\* The Notion webhook (POST /api/webhooks/notion)
\* ---------------------------------------------------------------------------

\* card_status_history records the handler may hold before it is called again
MaxWhHistory == 3

\* process.env.NOTION_PROJECTS_DB_ID, an id as a sequence of characters
NOTION_PROJECTS_DB_ID == <<"A", "-", "b">>

\* the database ids a parent may carry: the Projects database written with
\* and without hyphens, and another database
DbIds == {<<"A", "-", "b">>, <<"a", "b">>, <<"c">>}

\* page.parent: a database, a data source with or without database_id, a
\* page, the workspace, or none (<<>> is a missing database_id)
Parents ==
  [type : {"database_id"}, database_id : DbIds]
    \cup [type : {"data_source_id"}, database_id : {NOTION_PROJECTS_DB_ID, <<>>}]
    \cup [type : {"page_id", "workspace", NULL}, database_id : {<<>>}]

EventTypes == {"page.content_updated", "page.added_to_database", "page.updated",
               "page.removed_from_database", "page.deleted", "page.locked"}

\* what may raise inside the handler
WhFaults == {"none", "not_found", "retrieve", "transform", "history"}

\* const normalizeId = (id) => id.replace(/-/g, '').toLowerCase()
NormalizeId(id) == ToLowerCase(SelectSeq(id, LAMBDA c : c # "-"))

\* parentDbId: the database_id of a database_id or data_source_id parent
ParentDbId(parent) ==
  IF parent.type \in {"database_id", "data_source_id"} THEN parent.database_id ELSE <<>>

\* the handler skips the page: it has a parent, the Projects database is
\* configured, the parent names a database, and the normalised ids differ
NotFromProjects(parent, projectsDbId) ==
  /\ parent.type # NULL
  /\ projectsDbId # <<>>
  /\ ParentDbId(parent) # <<>>
  /\ NormalizeId(ParentDbId(parent)) # NormalizeId(projectsDbId)

\* recordStatusHistory: a record is inserted unless the last record of the
\* card has the card's status
WhRecordStatusHistory(hist, id, status) ==
  LET own == SelectSeq(hist, LAMBDA h : h.card_id = id)
  IN IF own = <<>> \/ own[Len(own)].status # status
       THEN Append(hist, [card_id |-> id, status |-> status])
       ELSE hist

InitWebhook ==
  /\ PassIdle
  /\ ConcIdle
  /\ TDIdle
  /\ GhostIdle
  /\ Ext1Idle
  /\ exceptWebhookIdle
  /\ now = 0 /\ source = <<>> /\ cards = <<>> /\ history = <<>>
  /\ whCards = [p \in WhPageIds |-> NULL]
  /\ whHistory = <<>>
  /\ \E projectsDbId \in {NOTION_PROJECTS_DB_ID, <<>>} :
       whEvent = [NoEvent EXCEPT !.projectsDbId = projectsDbId]

\* POST: one webhook request about page id, whose parent in Notion is parent
\* and whose status is status; the environment is that of the process
WebhookPost(id, payload, eventType, archived, full, parent, status, fault) ==
  LET projectsDbId == whEvent.projectsDbId
      hasPage == payload = "pageData"
      type == IF hasPage
                THEN IF archived THEN "page.removed_from_database" ELSE "page.content_updated"
                ELSE eventType
      removal == type \in {"page.removed_from_database", "page.deleted"}
                   \/ (hasPage /\ archived)
      update == type \in {"page.content_updated", "page.added_to_database", "page.updated"}
                  \/ hasPage
      existing == whCards[id]
      upserted == existing = NULL
      afterFirst == IF existing # NULL /\ existing # status
                      THEN WhRecordStatusHistory(whHistory, id, status) ELSE whHistory
      afterSecond == IF upserted
                       THEN WhRecordStatusHistory(afterFirst, id, status) ELSE afterFirst
      event(m) == [page_id |-> id, parent |-> parent, projectsDbId |-> projectsDbId,
                   message |-> m]
  IN /\ Len(whHistory) < MaxWhHistory
     /\ IF payload = "invalid"
          THEN /\ whEvent' = event("Invalid JSON payload")
               /\ UNCHANGED <<whCards, whHistory>>
        ELSE IF payload = "no_id"
          THEN /\ whEvent' = event("No page ID in payload")
               /\ UNCHANGED <<whCards, whHistory>>
        ELSE IF removal
          THEN /\ whCards' = IF existing # NULL THEN [whCards EXCEPT ![id] = ARCHIVE]
                             ELSE whCards
               /\ whEvent' = event("Page marked as archived")
               /\ UNCHANGED whHistory
        ELSE IF ~update
          THEN /\ whEvent' = event("Event type not processed")
               /\ UNCHANGED <<whCards, whHistory>>
        ELSE IF ~hasPage /\ fault = "not_found"
          THEN /\ whEvent' = event("Page not found (may have been deleted)")
               /\ UNCHANGED <<whCards, whHistory>>
        ELSE IF ~hasPage /\ fault = "retrieve"
          THEN /\ whEvent' = event("error")
               /\ UNCHANGED <<whCards, whHistory>>
        ELSE IF ~full
          THEN /\ whEvent' = event("Not a database page, skipped")
               /\ UNCHANGED <<whCards, whHistory>>
        ELSE IF NotFromProjects(parent, projectsDbId)
          THEN /\ whEvent' = event("Not from Projects database, skipped")
               /\ UNCHANGED <<whCards, whHistory>>
        ELSE IF fault = "transform"
          THEN /\ whEvent' = event("error")
               /\ UNCHANGED <<whCards, whHistory>>
        ELSE /\ whCards' = [whCards EXCEPT ![id] = status]
             /\ IF fault = "history" /\ afterSecond # whHistory
                  THEN /\ whEvent' = event("error")
                       /\ UNCHANGED whHistory
                  ELSE /\ whEvent' = event("Page updated successfully")
                       /\ whHistory' = afterSecond
     /\ UNCHANGED <<coreVars, ext1Vars, exceptWebhook>>

NextWebhook ==
  \E id \in WhPageIds, parent \in Parents, status \in {"A", "B"} :
    \/ \E payload \in {"invalid", "no_id"} :
         WebhookPost(id, payload, "page.updated", FALSE, TRUE, parent, status, "none")
    \/ \E archived \in BOOLEAN, full \in BOOLEAN, fault \in {"none", "transform", "history"} :
         WebhookPost(id, "pageData", "page.updated", archived, full, parent, status, fault)
    \/ \E eventType \in EventTypes, full \in BOOLEAN, fault \in WhFaults :
         WebhookPost(id, "standard", eventType, FALSE, full, parent, status, fault)

SpecWebhook == InitWebhook /\ [][NextWebhook]_vars

\* the parent names the configured Projects database, hyphens and case aside
FromProjects(parent) ==
  /\ parent.type \in {"database_id", "data_source_id"}
  /\ parent.database_id # <<>>
  /\ NormalizeId(parent.database_id) = NormalizeId(NOTION_PROJECTS_DB_ID)

\* C38: with the Projects database configured, a webhook request writes to
\* the cards collection or records history only for a page whose parent is
\* the Projects database; another database or a non-database parent causes
\* no write.
C38_OnlyProjectsPages ==
  [][(whEvent'.projectsDbId # <<>> /\ (whCards' # whCards \/ whHistory' # whHistory))
       => FromProjects(whEvent'.parent)]_vars

\* ---------------------------------------------------------------------------
\* The full Time Doctor sync (syncTimeDoctor)
\* ---------------------------------------------------------------------------

\* how a stage that reads the API and writes the store may end: it returns,
\* its fetch raises, or an upsert raises after another was written
StageOutcomes == {"ok", "fetch", "upsert"}

\* the outcome of the stage last called is settled
Settle(ran, outcome) == [ran EXCEPT ![Len(ran)].outcome = outcome]

InitFullTD ==
  /\ PassIdle
  /\ ConcIdle
  /\ GhostIdle
  /\ Ext1Idle
  /\ exceptFullIdle
  /\ now = 0 /\ source = <<>> /\ cards = <<>> /\ history = <<>>
  /\ tdpc = "idle"
  /\ tdHasUsers \in BOOLEAN
  /\ tdStart = 0
  /\ tdEnd \in 1..Days(MaxDays)
  /\ tdI = 0
  /\ currentStart = 0
  /\ allWorklogs = <<>>
  /\ tdStored = {}
  /\ tdRequests = <<>>
  /\ ftPc = "idle"
  /\ ftRan = <<>>

\* syncTimeDoctor is called: syncTimeDoctorUsers is awaited first
SyncTimeDoctorStart ==
  /\ ftPc = "idle"
  /\ ftPc' = "users"
  /\ ftRan' = <<[stage |-> "users", outcome |-> "running"]>>
  /\ UNCHANGED <<coreVars, ext1Vars, exceptFull>>

\* a users stage whose raise is logged and not rethrown
SyncTimeDoctorUsersSwallowed(some, o) ==
  /\ ftPc = "users"
  /\ tdHasUsers' = (tdHasUsers \/ (some /\ o # "fetch"))
  /\ ftPc' = "projects"
  /\ ftRan' = Append(Settle(ftRan, IF o = "ok" \/ ~some THEN "done" ELSE "raised"),
                     [stage |-> "projects", outcome |-> "running"])
  /\ UNCHANGED <<tdpc, tdStart, tdEnd, tdI, currentStart, allWorklogs, tdStored, tdRequests,
                 histVars, passVars, concVars, ext1Vars, exceptFull>>

\* syncTimeDoctorUsers: the users fetched (some or none) are upserted into
\* timedoctor_users; a raise is rethrown and ends syncTimeDoctor, else
\* syncTimeDoctorProjects is awaited
SyncTimeDoctorUsers(some, o) ==
  /\ ftPc = "users"
  /\ LET raised == o = "fetch" \/ (o = "upsert" /\ some)
     IN /\ tdHasUsers' = (tdHasUsers \/ (some /\ o # "fetch"))
        /\ ftPc' = IF raised THEN "raised" ELSE "projects"
        /\ ftRan' = IF raised THEN Settle(ftRan, "raised")
                    ELSE Append(Settle(ftRan, "done"),
                                [stage |-> "projects", outcome |-> "running"])
  /\ UNCHANGED <<tdpc, tdStart, tdEnd, tdI, currentStart, allWorklogs, tdStored, tdRequests,
                 histVars, passVars, concVars, ext1Vars, exceptFull>>

\* syncTimeDoctorProjects: a raise is rethrown and ends syncTimeDoctor, else
\* syncTimeDoctorWorklogs is called
SyncTimeDoctorProjectsStage(o) ==
  /\ ftPc = "projects"
  /\ ftPc' = IF o = "ok" THEN "worklogs" ELSE "raised"
  /\ ftRan' = IF o = "ok"
                THEN Append(Settle(ftRan, "done"),
                            [stage |-> "worklogs", outcome |-> "running"])
                ELSE Settle(ftRan, "raised")
  /\ UNCHANGED <<coreVars, ext1Vars, exceptFull>>

\* syncTimeDoctorWorklogs has returned, and syncTimeDoctor returns the counts
SyncTimeDoctorReturn ==
  /\ ftPc = "worklogs"
  /\ tdpc = "done"
  /\ ftPc' = "done"
  /\ ftRan' = Settle(ftRan, "done")
  /\ UNCHANGED <<coreVars, ext1Vars, exceptFull>>

NextFullTD ==
  \/ SyncTimeDoctorStart
  \/ \E some \in BOOLEAN, o \in StageOutcomes : SyncTimeDoctorUsers(some, o)
  \/ \E o \in StageOutcomes : SyncTimeDoctorProjectsStage(o)
  \/ ftPc = "worklogs" /\ TDStart
  \/ \E o \in TDOutcomes : FetchChunk(o)
  \/ TDPersist
  \/ SyncTimeDoctorReturn

SpecFullTD == InitFullTD /\ [][NextFullTD]_vars

\* the stages of the full sync, in the order of the calls
FullStages == <<"users", "projects", "worklogs">>

\* C39: the stages are called in the order users, projects, worklogs, each
\* after the one before it has returned without raising; after a raise of
\* users or projects no later stage is called; worklog requests and worklog
\* writes happen in the worklogs stage only, and none happens when the store
\* holds no Time Doctor user.
C39_StagesInOrder ==
  /\ Len(ftRan) <= Len(FullStages)
  /\ \A k \in DOMAIN ftRan :
       /\ ftRan[k].stage = FullStages[k]
       /\ k < Len(ftRan) => ftRan[k].outcome = "done"
  /\ ftPc = "raised" =>
       /\ ftRan[Len(ftRan)].outcome = "raised"
       /\ ftRan[Len(ftRan)].stage \in {"users", "projects"}
       /\ tdpc = "idle"
  /\ (tdpc # "idle" \/ tdRequests # <<>> \/ tdStored # {}) =>
       /\ Len(ftRan) = 3
       /\ ftPc \in {"worklogs", "done"}
  /\ ~tdHasUsers => tdRequests = <<>> /\ tdStored = {} /\ tdpc \in {"idle", "done"}

\* C39 witness: a full sync has returned after worklog requests and writes
C39_Witness ==
  /\ ftPc = "done"
  /\ [k \in DOMAIN ftRan |-> ftRan[k].outcome] = <<"done", "done", "done">>
  /\ Len(tdRequests) > 1
  /\ tdStored # {}

====
